---- MODULE Spec2Model ----
(***************************************************************************)
(* Model of the IHC ranking pipeline (scripts/ihc_ranking_job.py,          *)
(* scripts/ihc_snapshot_job.py and scripts/ihc_weekly_ranking_job.py).     *)
(*                                                                         *)
(* The specifications share the variables below:                           *)
(*   Spec          one call of make_spotify_request, one loop iteration    *)
(*                 per step, for the client of either job;                 *)
(*   SpecToken     the TokenManager object driven through its methods;     *)
(*   SpecRank      one run of the ranking job on any two neighbouring      *)
(*                 snapshots, one request to the database per step;        *)
(*   SpecDaily     several runs of the ranking job, each of which can be   *)
(*                 killed between two requests, on collected snapshots;    *)
(*   SpecPoints    one run of the ranking job when rows of the date before *)
(*                 are stored;                                             *)
(*   SpecOverlap   two runs of the ranking job for one date at once;       *)
(*   SpecWeekly    the weekly job on the stored rows of daily_rankings;    *)
(*   SpecStats     calculate_change_stats on two counts;                   *)
(*   SpecSnapshot  the snapshot job, one artist of a pass per step;        *)
(*   SpecJobs      the three jobs side by side.                            *)
(*                                                                         *)
(* Time is counted in ticks, TicksPerSecond ticks to the second, so that   *)
(* the jitter random.uniform(0, 1) is one of the ticks 0..TicksPerSecond-1 *)
(* added to a whole number of seconds.  Scores are exact rationals (pandas *)
(* computes them in float64); a missing number is the value NaN.           *)
(* Response bodies of a 200 are taken to be parseable JSON.                *)
(***************************************************************************)
EXTENDS Integers, Sequences, FiniteSets, TLC

VARIABLES
    job,            \* which script's client runs: "ranking" or "snapshot"
    now,            \* datetime.now(), in ticks
    token_manager,  \* TokenManager: [token, token_expiry_time]
    pc,             \* position of the running code
    attempt,        \* loop variable of make_spotify_request
    result,         \* what the call gave back to its caller
    log,            \* what the current call did so far: fetches, GETs, sleeps
    artist_snapshots,  \* table ihc.artist_snapshots: date -> group_id -> row
    snapshot_date,  \* SNAPSHOT_DATE of the last run of the ranking job
    df_diff,        \* the scored frame of that run, indexed by group_id
    ranking_raw,    \* the ranked frame of that run, a sequence of rows
    daily_rankings,       \* table ihc.daily_rankings: date -> group_id -> row
    daily_stats,          \* table ihc.daily_stats: date -> row
    cumulative_rankings,  \* table ihc.cumulative_rankings: date -> group_id -> row
    daily_top20,          \* table ihc.daily_top20: date -> group_id -> row
    weekly_rankings,      \* table ihc.weekly_rankings: week_end_date -> group_id -> row
    tie_break,      \* how the sort routine orders equal keys, once it has sorted
    run,            \* local variables of the job that runs (or ran last)
    runs_left       \* how many more times the job is started

clientVars == <<job, now, token_manager, attempt, result, log>>
tableVars == <<daily_rankings, daily_stats, cumulative_rankings, daily_top20,
               weekly_rankings>>
dbVars == <<artist_snapshots, snapshot_date, df_diff, ranking_raw, tableVars,
            tie_break, run, runs_left>>
vars == <<job, now, token_manager, pc, attempt, result, log,
          artist_snapshots, snapshot_date, df_diff, ranking_raw,
          daily_rankings, daily_stats, cumulative_rankings, daily_top20,
          weekly_rankings, tie_break, run, runs_left>>

(***************************************************************************)
(* Bounds of the model                                                     *)
(***************************************************************************)
TicksPerSecond == 2      \* resolution of the clock
ShortExpiresIn == 302    \* an expires_in that leaves 2s after the margin
RetryAfterSeconds == 3   \* the Retry-After value the server sends
MaxTime == 8             \* SpecToken lets the clock run up to here (ticks)
NumArtists == 2          \* group ids 1..NumArtists
NumDates == 3            \* snapshot dates 1..NumDates; day 0 has no rows

(***************************************************************************)
(* Program constants                                                       *)
(***************************************************************************)
max_retries == 5
DefaultExpiresIn == 3600
SafetyMargin == 300
DefaultRetryAfter == 5

None == "None"
\* the tables the jobs write
AllTables == <<artist_snapshots, daily_rankings, daily_stats, cumulative_rankings,
               daily_top20, weekly_rankings>>

\* no job of the pipeline has run and none will: the tables are empty
NoTables ==
    /\ daily_rankings = [d \in {} |-> d]
    /\ daily_stats = [d \in {} |-> d]
    /\ cumulative_rankings = [d \in {} |-> d]
    /\ daily_top20 = [d \in {} |-> d]
    /\ weekly_rankings = [d \in {} |-> d]

NoRun ==
    /\ tie_break = None
    /\ run = [job |-> None]
    /\ runs_left = 0

Jobs == {"ranking", "snapshot"}

Seconds(s) == s * TicksPerSecond

(***************************************************************************)
(* Inputs: what the network answers                                        *)
(***************************************************************************)
\* the token endpoint: a token with an expires_in, or a RequestException
FetchResults ==
    { [ok |-> TRUE, expires_in |-> e] : e \in {ShortExpiresIn, DefaultExpiresIn} }
    \cup { [ok |-> FALSE, expires_in |-> 0] }

\* the Retry-After header of a 429
RetryAfterHeaders ==
    { [kind |-> "absent", seconds |-> 0],
      [kind |-> "seconds", seconds |-> RetryAfterSeconds],
      [kind |-> "http_date", seconds |-> 0] }

Statuses == {200, 401, 404, 429, 500}

\* random.uniform(0, 1) in ticks: the least and the greatest jitter below 1s
Jitter == {0, TicksPerSecond - 1}

(***************************************************************************)
(* TokenManager                                                            *)
(***************************************************************************)
\* __init__: no token, expiry = construction time
NewTokenManager(t) == [token |-> None, token_expiry_time |-> t]

\* _get_new_token: the state of the manager after a fetch answered fr at time t
GetNewToken(tm, t, fr) ==
    IF fr.ok
    THEN [token |-> "token",
          token_expiry_time |-> t + Seconds(fr.expires_in - SafetyMargin)]
    ELSE [tm EXCEPT !.token = None]

\* mutant: the token is still used at the very instant it expires
NeedsRefresh_after(tm, t) == tm.token = None \/ t > tm.token_expiry_time

\* the condition of get_token under which it fetches
NeedsRefresh(tm, t) == tm.token = None \/ t >= tm.token_expiry_time

\* get_token: the manager after the call
GetToken(tm, t, fr) == IF NeedsRefresh(tm, t) THEN GetNewToken(tm, t, fr) ELSE tm

FetchEvent(t, fr, forced) ==
    [ev |-> "fetch", ok |-> fr.ok, expires_in |-> fr.expires_in,
     forced |-> forced, at |-> t]

\* the log of get_token: one fetch event when it fetched
GetTokenLog(l, tm, t, fr) ==
    IF NeedsRefresh(tm, t) THEN Append(l, FetchEvent(t, fr, FALSE)) ELSE l

(***************************************************************************)
(* make_spotify_request                                                    *)
(***************************************************************************)
\* mutant: every status from 400 on is retried with backoff
Classify_retry4xx(status) ==
    IF status = 200 THEN "ok"
    ELSE IF status = 401 THEN "unauthorized"
    ELSE IF status = 429 THEN "rate_limited"
    ELSE IF status >= 400 THEN "server_error"
    ELSE "other"

\* the if / elif chain on response.status_code
Classify(status) ==
    IF status = 200 THEN "ok"
    ELSE IF status = 401 THEN "unauthorized"
    ELSE IF status = 429 THEN "rate_limited"
    ELSE IF status >= 500 THEN "server_error"
    ELSE "other"

\* mutant: linear instead of exponential backoff
BackoffWait_linear(i, jitter) == Seconds(2 * i) + jitter

\* (2**attempt) + random.uniform(0, 1)
BackoffWait(i, jitter) == Seconds(2 ^ i) + jitter

\* mutant: the header is ignored
RateLimitWait_fixed(h) == Seconds(DefaultRetryAfter)

\* int(response.headers.get("Retry-After", 5))
RateLimitWait(h) ==
    IF h.kind = "absent" THEN Seconds(DefaultRetryAfter) ELSE Seconds(h.seconds)

\* whether the 401 branch of this job's client calls force_refresh_token
ForcesRefreshOn401(j) == j = "ranking"

GetEvent(i, status) == [ev |-> "get", attempt |-> i, status |-> status]
RateLimitedEvent(i, h) == [ev |-> "get", attempt |-> i, status |-> 429, retry_after |-> h]
ExceptionEvent(i) == [ev |-> "get", attempt |-> i, status |-> 0]
SleepEvent(i, d) == [ev |-> "sleep", attempt |-> i, dur |-> d]

\* the end of one loop iteration that did not return: next iteration, or the
\* return None after the loop
Continue ==
    /\ attempt' = attempt + 1
    /\ IF attempt + 1 < max_retries
       THEN pc' = "running" /\ result' = result
       ELSE pc' = "returned" /\ result' = "none"

\* the iteration has a token after get_token
HasToken(fr) == GetToken(token_manager, now, fr).token # None

\* get_token gave no token: raise Exception("Token not available"), which the
\* except clause for requests.exceptions.RequestException does not catch
AttemptNoToken(fr) ==
    /\ pc = "running"
    /\ ~HasToken(fr)
    /\ token_manager' = GetToken(token_manager, now, fr)
    /\ log' = GetTokenLog(log, token_manager, now, fr)
    /\ pc' = "raised"
    /\ result' = "raised"
    /\ UNCHANGED <<job, now, attempt>>
    /\ UNCHANGED dbVars

\* 200: return response.json()
AttemptOk(fr) ==
    /\ pc = "running"
    /\ HasToken(fr)
    /\ token_manager' = GetToken(token_manager, now, fr)
    /\ log' = Append(GetTokenLog(log, token_manager, now, fr), GetEvent(attempt, 200))
    /\ pc' = "returned"
    /\ result' = "body"
    /\ UNCHANGED <<job, now, attempt>>
    /\ UNCHANGED dbVars

\* 401: the ranking job forces a refresh (answered fr2), the snapshot job does
\* not; both go on to the next iteration without sleeping
AttemptUnauthorized(fr, fr2) ==
    /\ pc = "running"
    /\ HasToken(fr)
    /\ LET tm1 == GetToken(token_manager, now, fr)
           l1 == Append(GetTokenLog(log, token_manager, now, fr), GetEvent(attempt, 401))
       IN IF ForcesRefreshOn401(job)
          THEN /\ token_manager' = GetNewToken(tm1, now, fr2)
               /\ log' = Append(l1, FetchEvent(now, fr2, TRUE))
          ELSE /\ token_manager' = tm1
               /\ log' = l1
    /\ Continue
    /\ UNCHANGED <<job, now>>
    /\ UNCHANGED dbVars

\* 429: sleep for Retry-After; a header that is not an integer makes int()
\* raise ValueError, which nothing catches
AttemptRateLimited(fr, h) ==
    /\ pc = "running"
    /\ HasToken(fr)
    /\ token_manager' = GetToken(token_manager, now, fr)
    /\ LET l1 == Append(GetTokenLog(log, token_manager, now, fr), RateLimitedEvent(attempt, h))
       IN IF h.kind = "http_date"
          THEN /\ log' = l1
               /\ pc' = "raised"
               /\ result' = "raised"
               /\ UNCHANGED <<now, attempt>>
          ELSE /\ log' = Append(l1, SleepEvent(attempt, RateLimitWait(h)))
               /\ now' = now + RateLimitWait(h)
               /\ Continue
    /\ UNCHANGED job
    /\ UNCHANGED dbVars

\* a status the chain sends to the backoff branch or to return None
AttemptStatus(fr, status, jitter) ==
    /\ pc = "running"
    /\ HasToken(fr)
    /\ Classify(status) \in {"server_error", "other"}
    /\ token_manager' = GetToken(token_manager, now, fr)
    /\ LET l1 == Append(GetTokenLog(log, token_manager, now, fr), GetEvent(attempt, status))
       IN IF Classify(status) = "server_error"
          THEN /\ log' = Append(l1, SleepEvent(attempt, BackoffWait(attempt, jitter)))
               /\ now' = now + BackoffWait(attempt, jitter)
               /\ Continue
          ELSE /\ log' = l1
               /\ pc' = "returned"
               /\ result' = "none"
               /\ UNCHANGED <<now, attempt>>
    /\ UNCHANGED job
    /\ UNCHANGED dbVars

\* requests.get raised a RequestException: same backoff as a 5xx
AttemptException(fr, jitter) ==
    /\ pc = "running"
    /\ HasToken(fr)
    /\ token_manager' = GetToken(token_manager, now, fr)
    /\ log' = Append(Append(GetTokenLog(log, token_manager, now, fr), ExceptionEvent(attempt)),
                     SleepEvent(attempt, BackoffWait(attempt, jitter)))
    /\ now' = now + BackoffWait(attempt, jitter)
    /\ Continue
    /\ UNCHANGED job
    /\ UNCHANGED dbVars

Init ==
    /\ job \in Jobs
    /\ now = 0
    /\ token_manager = NewTokenManager(0)
    /\ pc = "running"
    /\ attempt = 0
    /\ result = "pending"
    /\ log = <<>>
    /\ artist_snapshots = [d \in {} |-> d]
    /\ snapshot_date = 0
    /\ df_diff = [g \in {} |-> g]
    /\ ranking_raw = <<>>
    /\ NoTables
    /\ NoRun

Next ==
    \/ \E fr \in FetchResults : AttemptNoToken(fr)
    \/ \E fr \in FetchResults : AttemptOk(fr)
    \/ \E fr \in FetchResults, fr2 \in FetchResults : AttemptUnauthorized(fr, fr2)
    \/ \E fr \in FetchResults, h \in RetryAfterHeaders : AttemptRateLimited(fr, h)
    \/ \E fr \in FetchResults, s \in Statuses, j \in Jitter : AttemptStatus(fr, s, j)
    \/ \E fr \in FetchResults, j \in Jitter : AttemptException(fr, j)

Spec == Init /\ [][Next]_vars

(***************************************************************************)
(* SpecToken: a TokenManager driven through its methods while time passes  *)
(***************************************************************************)
CallEvent(op, tm, t) == [ev |-> "call", op |-> op, tm |-> tm, at |-> t]

InitToken ==
    /\ job \in Jobs
    /\ now = 0
    /\ token_manager = NewTokenManager(0)
    /\ pc = "token_manager"
    /\ attempt = 0
    /\ result = None
    /\ log = <<>>
    /\ artist_snapshots = [d \in {} |-> d]
    /\ snapshot_date = 0
    /\ df_diff = [g \in {} |-> g]
    /\ ranking_raw = <<>>
    /\ NoTables
    /\ NoRun

\* token_manager.get_token(), the token endpoint answering fr if asked
CallGetToken(fr) ==
    /\ pc = "token_manager"
    /\ token_manager' = GetToken(token_manager, now, fr)
    /\ result' = token_manager'.token
    /\ log' = GetTokenLog(<<CallEvent("get_token", token_manager, now)>>,
                          token_manager, now, fr)
    /\ UNCHANGED <<job, now, pc, attempt>>
    /\ UNCHANGED dbVars

\* token_manager.force_refresh_token(), which only the ranking job defines
CallForceRefreshToken(fr) ==
    /\ pc = "token_manager"
    /\ ForcesRefreshOn401(job)
    /\ token_manager' = GetNewToken(token_manager, now, fr)
    /\ result' = None
    /\ log' = <<CallEvent("force_refresh_token", token_manager, now),
                FetchEvent(now, fr, TRUE)>>
    /\ UNCHANGED <<job, now, pc, attempt>>
    /\ UNCHANGED dbVars

\* time passes between two calls
Elapse(d) ==
    /\ pc = "token_manager"
    /\ now < MaxTime
    /\ now' = now + d
    /\ UNCHANGED <<job, token_manager, pc, attempt, result, log>>
    /\ UNCHANGED dbVars

NextToken ==
    \/ \E fr \in FetchResults : CallGetToken(fr)
    \/ \E fr \in FetchResults : CallForceRefreshToken(fr)
    \/ \E d \in 1 .. TicksPerSecond : Elapse(d)

SpecToken == InitToken /\ [][NextToken]_vars

(***************************************************************************)
(* Nullable numbers: a float64 cell is NaN or an exact rational n/d, d > 0 *)
(***************************************************************************)
Abs(x) == IF x < 0 THEN -x ELSE x

RECURSIVE Gcd(_, _)
Gcd(a, b) == IF b = 0 THEN a ELSE Gcd(b, a % b)

NaN == [isna |-> TRUE, n |-> 0, d |-> 1]

\* the rational n/d in lowest terms (d # 0)
Rat(n, d) ==
    LET g == Gcd(Abs(n), Abs(d))
        sgn == IF d < 0 THEN -1 ELSE 1
    IN [isna |-> FALSE, n |-> (sgn * n) \div g, d |-> Abs(d) \div g]

Num(n) == Rat(n, 1)

Add(a, b) == IF a.isna \/ b.isna THEN NaN ELSE Rat(a.n * b.d + b.n * a.d, a.d * b.d)
Sub(a, b) == IF a.isna \/ b.isna THEN NaN ELSE Rat(a.n * b.d - b.n * a.d, a.d * b.d)
Mul(a, b) == IF a.isna \/ b.isna THEN NaN ELSE Rat(a.n * b.n, a.d * b.d)
Div(a, b) == IF a.isna \/ b.isna THEN NaN ELSE Rat(a.n * b.d, a.d * b.n)
Gt(a, b) == ~a.isna /\ ~b.isna /\ a.n * b.d > b.n * a.d

\* Series.fillna(v) and Series.replace(x, y) on one cell
Fillna(a, v) == IF a.isna THEN v ELSE a
Replace(a, x, y) == IF a = x THEN y ELSE a

(***************************************************************************)
(* The ranking job: diff scorer and daily ranker                           *)
(***************************************************************************)
Artists == 1 .. NumArtists
Dates == 1 .. NumDates

SnapshotRow(p, f, t, c) ==
    [artist_popularity |-> p, followers |-> f,
     track_popularity_sum |-> t, new_release_count |-> c]

\* the rows a snapshot may hold for group g: a low and a higher popularity,
\* zero and NaN cells
SnapshotRows(g) ==
    IF g % 2 = 1
    THEN { SnapshotRow(Num(2), Num(0), Num(30), Num(2)),
           SnapshotRow(Num(5), Num(10), NaN, Num(1)) }
    ELSE { SnapshotRow(NaN, Num(50), Num(40), Num(1)),
           SnapshotRow(Num(7), Num(20), Num(5), Num(2)) }

EmptyFrame == [g \in {} |-> g]

\* the contents one date of the table can have: any artists, any of their rows
Frames ==
    UNION { { f \in [S -> UNION { SnapshotRows(g) : g \in S }] :
                \A g \in S : f[g] \in SnapshotRows(g) } : S \in SUBSET Artists }

\* fetch_snapshot(supabase, date_str): the rows of that date
fetch_snapshot(date) ==
    IF date \in DOMAIN artist_snapshots THEN artist_snapshots[date] ELSE EmptyFrame

\* mutant: the rows of the date itself are read as the previous ones
PrevDate_same(date) == date

\* prev_date = snapshot_date - 1 day
PrevDate(date) == date - 1

\* df_prev.get(column).reindex(df_now.index): NaN where df_prev has no row
PrevColumn(df_prev, g, column) ==
    IF g \in DOMAIN df_prev THEN df_prev[g][column] ELSE NaN

\* new_artist_ids = df_now.index.difference(df_prev.index)
NewArtistIds(df_now, df_prev) == DOMAIN df_now \ DOMAIN df_prev

\* df_diff["popularity_delta"]
PopularityDelta(df_now, df_prev, g) ==
    IF g \in NewArtistIds(df_now, df_prev)
    THEN Num(0)
    ELSE Fillna(Sub(df_now[g].artist_popularity,
                    PrevColumn(df_prev, g, "artist_popularity")), Num(0))

\* (current - prev_filled) / prev_filled.replace(0, 1)
Ratio(current, prev) ==
    LET prev_filled == Fillna(prev, Num(0))
        denominator == Replace(prev_filled, Num(0), Num(1))
    IN Div(Sub(current, prev_filled), denominator)

\* df_diff["followers_ratio"]
FollowersRatio(df_now, df_prev, g) ==
    IF g \in NewArtistIds(df_now, df_prev)
    THEN Num(0)
    ELSE Ratio(df_now[g].followers, PrevColumn(df_prev, g, "followers"))

\* df_diff["track_popularity_sum_ratio"]
TrackPopularitySumRatio(df_now, df_prev, g) ==
    IF g \in NewArtistIds(df_now, df_prev)
    THEN Num(0)
    ELSE Ratio(df_now[g].track_popularity_sum,
               PrevColumn(df_prev, g, "track_popularity_sum"))

\* mutant: first-seen artists keep today's release count
NewReleaseCount_passthrough(df_now, df_prev, g) == df_now[g].new_release_count

\* df_diff["new_release_count"]
NewReleaseCount(df_now, df_prev, g) ==
    IF g \in NewArtistIds(df_now, df_prev)
    THEN Num(0)
    ELSE df_now[g].new_release_count

\* the weighted sum of the four columns
Score(popularity_delta, followers_ratio, track_popularity_sum_ratio, new_release_count) ==
    Add(Add(Add(Mul(popularity_delta, Num(3)),
                Mul(followers_ratio, Num(2))),
            Mul(track_popularity_sum_ratio, Num(1))),
        Mul(new_release_count, Rat(3, 10)))

\* mutant: the floor stops at popularity 1
LowPopularity_upto1(artist_popularity) ==
    artist_popularity \in {Num(0), Num(1)} \/ artist_popularity.isna

\* condition_low_popularity
LowPopularity(artist_popularity) ==
    artist_popularity \in {Num(0), Num(1), Num(2)} \/ artist_popularity.isna

\* one row of df_diff, the zero floor applied
DiffRow(df_now, df_prev, g) ==
    LET pd == PopularityDelta(df_now, df_prev, g)
        fr == FollowersRatio(df_now, df_prev, g)
        tr == TrackPopularitySumRatio(df_now, df_prev, g)
        nrc == NewReleaseCount(df_now, df_prev, g)
    IN [group_id |-> g,
        artist_popularity |-> df_now[g].artist_popularity,
        followers |-> df_now[g].followers,
        track_popularity_sum |-> df_now[g].track_popularity_sum,
        popularity_delta |-> pd,
        followers_ratio |-> fr,
        track_popularity_sum_ratio |-> tr,
        new_release_count |-> nrc,
        score |-> IF LowPopularity(df_now[g].artist_popularity)
                  THEN Num(0) ELSE Score(pd, fr, tr, nrc)]

DiffFrame(df_now, df_prev) == [g \in DOMAIN df_now |-> DiffRow(df_now, df_prev, g)]

\* mutant: ascending sort
SortsBefore_ascending(a, b) == Gt(b.score, a.score) \/ (~a.score.isna /\ b.score.isna)

\* sort_values(by="score", ascending=False): row a has to come before row b
\* when its score is greater, and NaN scores come last
SortsBefore(a, b) == Gt(a.score, b.score) \/ (~a.score.isna /\ b.score.isna)

\* the orders sort_values may give: the default quicksort leaves the order of
\* equal scores open
SortOrders(df) ==
    { o \in [1 .. Cardinality(DOMAIN df) -> DOMAIN df] :
        /\ \A i, j \in DOMAIN o : i # j => o[i] # o[j]
        /\ \A i, j \in DOMAIN o : i < j => ~SortsBefore(df[o[j]], df[o[i]]) }

\* ranking_raw.insert(0, "rank", ranking_raw.index + 1), position i counted from 1
RankAt(i) == i

RankedFrame(df, o) ==
    [i \in DOMAIN o |-> [rank |-> RankAt(i), group_id |-> o[i], score |-> df[o[i]].score]]

\* score * 10
ScorePoints(score) == Mul(score, Num(10))

\* what the sort routine may do with rows of equal key: the default
\* kind="quicksort" of sort_values is not a stable sort, so rows of equal key
\* come out in an order the routine fixes, here the order they had or the
\* reverse of it; the same input is always sorted the same way
TieBreaks == {"stable", "reversed"}

\* a.isna and b.isna, or equal scores: neither row has to come first
Tie(a, b) == ~SortsBefore(a, b) /\ ~SortsBefore(b, a)

\* the frame has rows of equal score
HasTies(df) == \E g, h \in DOMAIN df : g # h /\ Tie(df[g], df[h])

\* response.data of a select: the rows come in the order of their group_id
RowOrder(df) ==
    CHOOSE o \in [1 .. Cardinality(DOMAIN df) -> DOMAIN df] :
        \A i, j \in DOMAIN o : i < j => o[i] < o[j]

\* the rows of a frame as the select hands them over
RowOrderRows(df) == [i \in DOMAIN RowOrder(df) |-> df[RowOrder(df)[i]]]

\* df_diff.sort_values(by="score", ascending=False) by a routine that treats
\* equal scores as tb says
DailyOrder(df, tb) ==
    CHOOSE o \in SortOrders(df) :
        \A i, j \in DOMAIN o :
            (i < j /\ Tie(df[o[i]], df[o[j]])) =>
                IF tb = "reversed" THEN o[i] > o[j] ELSE o[i] < o[j]

\* the treatment of equal keys a sort may use now: the one it used before, if
\* it met equal keys before
MayBreakTiesAs(tb, ties) ==
    /\ tie_break # None => tb = tie_break
    /\ (tie_break = None /\ ~ties) => tb = "stable"

\* the rows of one date of a table
TableRows(table, date) ==
    IF date \in DOMAIN table THEN table[date] ELSE EmptyFrame

\* int(value), None for a missing value
to_int(value) ==
    IF value.isna THEN NaN
    ELSE IF value.n >= 0 THEN Num(value.n \div value.d)
         ELSE Num(-((-value.n) \div value.d))

\* float(value), None for a missing value
to_float(value) == IF value.isna THEN NaN ELSE Rat(value.n, value.d)

\* rising_flag: score_delta > threshold
threshold == 50

\* mutant: a delta of exactly the threshold counts as rising
RisingFlag_atleast(score_delta) ==
    ~score_delta.isna /\ ~Gt(Num(threshold), score_delta)

RisingFlag(score_delta) == Gt(score_delta, Num(threshold))

\* one row of ranking_points: the row of ranking_raw in points, merged with
\* the rank and the score the artist had in daily_rankings on prev_date
RankingPointsRow(r, df, df_prev_rankings) ==
    LET g == r.group_id
        score == ScorePoints(r.score)
        score_prev == PrevColumn(df_prev_rankings, g, "score")
    IN [rank |-> Num(r.rank),
        prev_rank |-> PrevColumn(df_prev_rankings, g, "rank"),
        score |-> score,
        score_prev |-> score_prev,
        score_delta |-> Sub(score, score_prev),
        rising_icon |-> RisingFlag(Sub(score, score_prev)),
        group_id |-> g,
        artist_popularity |-> df[g].artist_popularity,
        popularity_delta |-> df[g].popularity_delta,
        followers |-> df[g].followers,
        followers_ratio |-> df[g].followers_ratio,
        new_release_count |-> df[g].new_release_count,
        track_popularity_sum_ratio |-> df[g].track_popularity_sum_ratio,
        track_popularity_sum |-> df[g].track_popularity_sum]

RankingPoints(raw, df, df_prev_rankings) ==
    [i \in DOMAIN raw |-> RankingPointsRow(raw[i], df, df_prev_rankings)]

\* the record of daily_rankings made of one row of ranking_points
RankingRecord(row) ==
    [group_id |-> row.group_id,
     rank |-> to_int(row.rank),
     prev_rank |-> to_int(row.prev_rank),
     score |-> to_float(row.score),
     score_prev |-> to_float(row.score_prev),
     score_delta |-> to_float(row.score_delta),
     rising_icon |-> row.rising_icon,
     artist_popularity |-> to_int(row.artist_popularity),
     popularity_delta |-> to_int(row.popularity_delta),
     followers |-> to_int(row.followers),
     followers_ratio |-> to_float(row.followers_ratio),
     new_release_count |-> to_int(row.new_release_count),
     track_popularity_sum_ratio |-> to_float(row.track_popularity_sum_ratio),
     track_popularity_sum |-> to_int(row.track_popularity_sum)]

RankingRecords(ranking_points) ==
    [i \in DOMAIN ranking_points |-> RankingRecord(ranking_points[i])]

\* batch_size = int(os.getenv("BATCH_SIZE", "500"))
batch_size == 1

\* records[start : start + batch_size], start counted from 0
Batch(records, start) ==
    SubSeq(records, start + 1,
           IF start + batch_size < Len(records) THEN start + batch_size
           ELSE Len(records))

\* mutant: the batch takes the place of all rows of the date
Upsert_replace_date(table, date, batch) ==
    LET ids == { batch[i].group_id : i \in DOMAIN batch }
        at(g) == CHOOSE i \in DOMAIN batch : batch[i].group_id = g
    IN [d \in DOMAIN table \cup {date} |->
           IF d = date THEN [g \in ids |-> batch[at(g)]] ELSE table[d]]

\* table.upsert(batch, on_conflict="snapshot_date,group_id"): the rows of the
\* batch replace the rows of their keys, the other rows stay
Upsert(table, date, batch) ==
    LET old == TableRows(table, date)
        ids == { batch[i].group_id : i \in DOMAIN batch }
        \* the records of a batch have distinct keys
        at(g) == CHOOSE i \in DOMAIN batch : batch[i].group_id = g
        rows == [g \in DOMAIN old \cup ids |->
                    IF g \in ids THEN batch[at(g)] ELSE old[g]]
    IN [d \in DOMAIN table \cup {date} |-> IF d = date THEN rows ELSE table[d]]

\* table.upsert(record, on_conflict="snapshot_date")
UpsertRow(table, date, record) ==
    [d \in DOMAIN table \cup {date} |-> IF d = date THEN record ELSE table[d]]

\* f"{x:.2f}%": the sign and the hundredths of x rounded to two decimals
Percent(x) ==
    LET a == Abs(x.n) * 100
        q == a \div x.d
        r == a % x.d
        hundredths == IF 2 * r > x.d \/ (2 * r = x.d /\ q % 2 = 1) THEN q + 1 ELSE q
    IN [text |-> "%", minus |-> x.n < 0, hundredths |-> hundredths]

\* the ratio strings that are not a percentage
Label(text) == [text |-> text, minus |-> FALSE, hundredths |-> 0]

\* mutant: a previous value of 0 is divided by like any other
calculate_change_stats_noprev0(today_val, yesterday_val) ==
    IF ~today_val.isna /\ ~yesterday_val.isna
    THEN [diff |-> Sub(today_val, yesterday_val),
          ratio_str |-> IF today_val = Num(0) THEN Percent(Num(0))
                        ELSE Percent(Mul(Div(Sub(today_val, yesterday_val),
                                             Replace(yesterday_val, Num(0), Num(1))),
                                         Num(100)))]
    ELSE IF ~today_val.isna
    THEN [diff |-> today_val, ratio_str |-> Label("N/A (no prev)")]
    ELSE IF ~yesterday_val.isna
    THEN [diff |-> Sub(Num(0), yesterday_val), ratio_str |-> Label("N/A (no today)")]
    ELSE [diff |-> NaN, ratio_str |-> Label("N/A")]

\* calculate_change_stats(today_val, yesterday_val): (diff, ratio_str)
calculate_change_stats(today_val, yesterday_val) ==
    IF ~today_val.isna /\ ~yesterday_val.isna
    THEN [diff |-> Sub(today_val, yesterday_val),
          ratio_str |-> IF yesterday_val # Num(0)
                        THEN Percent(Mul(Div(Sub(today_val, yesterday_val),
                                             yesterday_val), Num(100)))
                        ELSE IF today_val = Num(0)
                        THEN Percent(Num(0))
                        ELSE Label("N/A (prev 0)")]
    ELSE IF ~today_val.isna
    THEN [diff |-> today_val, ratio_str |-> Label("N/A (no prev)")]
    ELSE IF ~yesterday_val.isna
    THEN [diff |-> Sub(Num(0), yesterday_val), ratio_str |-> Label("N/A (no today)")]
    ELSE [diff |-> NaN, ratio_str |-> Label("N/A")]

\* source[source[column] == 0].shape[0]
CountZero(source, column) ==
    Cardinality({ k \in DOMAIN source : source[k][column] = Num(0) })

\* rows where artist_popularity and track_popularity_sum_ratio are both 0
CountBothZero(source) ==
    Cardinality({ k \in DOMAIN source :
                    /\ source[k].artist_popularity = Num(0)
                    /\ source[k].track_popularity_sum_ratio = Num(0) })

RECURSIVE SumScores(_, _)
SumScores(source, keys) ==
    IF keys = {} THEN Num(0)
    ELSE LET k == CHOOSE k \in keys : TRUE
         IN Add(source[k].score, SumScores(source, keys \ {k}))

\* source["score"].mean(), pd.NA when no row has a score
MeanScore(source) ==
    LET keys == { k \in DOMAIN source : ~source[k].score.isna }
    IN IF keys = {} THEN NaN
       ELSE Div(SumScores(source, keys), Num(Cardinality(keys)))

\* the counts of yesterday are pd.NA when daily_rankings has no row of prev_date
CountOrNA(df_prev_rankings, count) ==
    IF DOMAIN df_prev_rankings = {} THEN NaN ELSE Num(count)

\* stats_record of main()
StatsRecord(ranking_points, df_prev_rankings) ==
    LET avg_score_today == MeanScore(ranking_points)
        count_pop_zero_today == Num(CountZero(ranking_points, "artist_popularity"))
        count_tpsr_zero_today ==
            Num(CountZero(ranking_points, "track_popularity_sum_ratio"))
        count_both_zero_today == Num(CountBothZero(ranking_points))
        avg_score_yesterday == MeanScore(df_prev_rankings)
        count_pop_zero_yesterday ==
            CountOrNA(df_prev_rankings, CountZero(df_prev_rankings, "artist_popularity"))
        count_tpsr_zero_yesterday ==
            CountOrNA(df_prev_rankings,
                      CountZero(df_prev_rankings, "track_popularity_sum_ratio"))
        count_both_zero_yesterday ==
            CountOrNA(df_prev_rankings, CountBothZero(df_prev_rankings))
        pop_zero == calculate_change_stats(count_pop_zero_today, count_pop_zero_yesterday)
        tpsr_zero == calculate_change_stats(count_tpsr_zero_today, count_tpsr_zero_yesterday)
        both_zero == calculate_change_stats(count_both_zero_today, count_both_zero_yesterday)
        avg_score == calculate_change_stats(avg_score_today, avg_score_yesterday)
    IN [avg_score |-> to_float(avg_score_today),
        count_pop_zero |-> to_int(count_pop_zero_today),
        count_tpsr_zero |-> to_int(count_tpsr_zero_today),
        count_both_zero |-> to_int(count_both_zero_today),
        avg_score_prev |-> to_float(avg_score_yesterday),
        count_pop_zero_prev |-> to_int(count_pop_zero_yesterday),
        count_tpsr_zero_prev |-> to_int(count_tpsr_zero_yesterday),
        count_both_zero_prev |-> to_int(count_both_zero_yesterday),
        avg_score_diff |-> to_float(avg_score.diff),
        count_pop_zero_diff |-> to_int(pop_zero.diff),
        count_tpsr_zero_diff |-> to_int(tpsr_zero.diff),
        count_both_zero_diff |-> to_int(both_zero.diff),
        avg_score_ratio |-> avg_score.ratio_str,
        count_pop_zero_ratio |-> pop_zero.ratio_str,
        count_tpsr_zero_ratio |-> tpsr_zero.ratio_str,
        count_both_zero_ratio |-> both_zero.ratio_str]

\* mutant: a total does not go below 0
CumulativeScore_clamped(cumulative_score, score_points) ==
    LET total == Add(Fillna(cumulative_score, Num(0)), Fillna(score_points, Num(0)))
    IN IF total.n < 0 THEN Num(0) ELSE total

\* merged["cumulative_score"].fillna(0) + merged["score_points"].fillna(0)
CumulativeScore(cumulative_score, score_points) ==
    Add(Fillna(cumulative_score, Num(0)), Fillna(score_points, Num(0)))

\* score_points.merge(df_prev_cumulative, on="group_id", how="left") with the
\* new cumulative_score, in the order of ranking_raw
Merged(raw, df, df_prev_cumulative) ==
    [i \in DOMAIN raw |->
        [group_id |-> raw[i].group_id,
         score_points |-> ScorePoints(raw[i].score),
         cumulative_score |->
             CumulativeScore(PrevColumn(df_prev_cumulative, raw[i].group_id,
                                        "cumulative_score"),
                             ScorePoints(raw[i].score)),
         artist_popularity |-> df[raw[i].group_id].artist_popularity]]

\* the rows of merged have equal cumulative scores
HasCumulativeTies(merged) ==
    \E i, j \in DOMAIN merged :
        i # j /\ merged[i].cumulative_score = merged[j].cumulative_score

\* merged.sort_values(by="cumulative_score", ascending=False): the positions
\* of merged in the sorted order (cumulative_score is never NaN)
CumulativeOrder(merged, tb) ==
    CHOOSE o \in [DOMAIN merged -> DOMAIN merged] :
        /\ \A i, j \in DOMAIN o : i # j => o[i] # o[j]
        /\ \A i, j \in DOMAIN o : i < j =>
              \/ Gt(merged[o[i]].cumulative_score, merged[o[j]].cumulative_score)
              \/ /\ merged[o[i]].cumulative_score = merged[o[j]].cumulative_score
                 /\ IF tb = "reversed" THEN o[i] > o[j] ELSE o[i] < o[j]

\* cumulative_records of main()
CumulativeRecords(merged, tb) ==
    LET o == CumulativeOrder(merged, tb)
    IN [i \in DOMAIN o |->
           [group_id |-> merged[o[i]].group_id,
            rank |-> Num(RankAt(i)),
            cumulative_score |-> merged[o[i]].cumulative_score,
            score |-> merged[o[i]].score_points,
            artist_popularity |-> to_int(merged[o[i]].artist_popularity)]]

\* ranking_points.head(20)
Top20 == 20
Head20(ranking_points) ==
    SubSeq(ranking_points, 1,
           IF Len(ranking_points) < Top20 THEN Len(ranking_points) ELSE Top20)

\* top20_records of main(), without the columns that come from the catalog
Top20Records(ranking_points) ==
    LET top20_df == Head20(ranking_points)
    IN [i \in DOMAIN top20_df |->
           [group_id |-> top20_df[i].group_id,
            rank |-> to_int(top20_df[i].rank),
            score |-> top20_df[i].score]]

\* how the part of main() that talks to Spotify ends: the credentials are
\* missing (require_env raises), a request raises, or the records are there
SpotifyOutcomes == {"config", "raised", "ok"}

\* the snapshot rows the snapshot job writes: whole numbers, no missing cell
DailyRow(g, date) ==
    SnapshotRow(Num(5),
                Num(IF (g + date) % 2 = 0 THEN 70 ELSE 10),
                Num(20),
                Num(g % 2))

\* the snapshots of the daily runs: the artists of late are collected from
\* the second date on
DailySnapshots(late) ==
    [date \in Dates |->
        [g \in (IF date = 1 THEN Artists \ late ELSE Artists) |-> DailyRow(g, date)]]

\* who is collected from the second date on: the newest artist, or everybody
\* (the first date then has no snapshot)
LateArtists == {{NumArtists}, Artists}

\* how often the ranking job is started
MaxRuns == 2

\* the local variables of a run of main() that starts now; previous and
\* before remember the run before it and the tables as they are now
NewRun(date) ==
    [job |-> "ranking", date |-> date, error |-> None,
     network |-> FALSE, upserts |-> 0,
     df_prev_rankings |-> EmptyFrame, ranking_points |-> <<>>,
     records |-> <<>>, cumulative_records |-> <<>>, start |-> 0,
     previous |-> IF run.job = "ranking"
                  THEN [date |-> run.date, result |-> result]
                  ELSE [date |-> 0, result |-> None],
     \* all runs so far were complete and went date by date
     in_order |-> IF run.job = "ranking"
                  THEN /\ run.in_order
                       /\ result = "saved"
                       /\ date \in {run.date, run.date + 1}
                  ELSE TRUE,
     before |-> AllTables]

\* a run of main() can start
CanStart == pc = "ranking_job" /\ runs_left > 0

\* the positions of main() between two requests to the database
RunningPcs == {"daily_rankings", "daily_stats", "prev_cumulative",
               "cumulative_rankings", "top20"}

InitRank ==
    /\ job = "ranking"
    /\ now = 0
    /\ token_manager = NewTokenManager(0)
    /\ pc = "ranking_job"
    /\ attempt = 0
    /\ result = "pending"
    /\ log = <<>>
    /\ artist_snapshots \in [Dates -> Frames]
    \* a run reads two neighbouring dates: the other dates are left empty
    /\ \E date \in Dates :
          \A other \in Dates \ {date, PrevDate(date)} :
              artist_snapshots[other] = EmptyFrame
    /\ snapshot_date = 0
    /\ df_diff = EmptyFrame
    /\ ranking_raw = <<>>
    /\ NoTables
    /\ tie_break = None
    /\ run = [job |-> None]
    /\ runs_left = 1

\* main() when SUPABASE_URL or SUPABASE_SERVICE_ROLE_KEY is not set:
\* get_supabase_client raises before anything is read
RunRankingNoConfig ==
    /\ CanStart
    /\ runs_left' = runs_left - 1
    /\ result' = "raised"
    /\ run' = [NewRun(0) EXCEPT !.error = "config"]
    /\ df_diff' = EmptyFrame
    /\ ranking_raw' = <<>>
    /\ UNCHANGED <<job, now, token_manager, pc, attempt, log, artist_snapshots,
                   snapshot_date, tableVars, tie_break>>

\* mutant: main() does not look whether the snapshot is empty and goes on to
\* the statistics of no rows
RunRankingNoSnapshot_unchecked(date) ==
    /\ CanStart
    /\ fetch_snapshot(date) = EmptyFrame
    /\ runs_left' = runs_left - 1
    /\ snapshot_date' = date
    /\ result' = "saved"
    /\ run' = [NewRun(date) EXCEPT !.network = TRUE, !.upserts = 1]
    /\ df_diff' = EmptyFrame
    /\ ranking_raw' = <<>>
    /\ daily_stats' = UpsertRow(daily_stats, date,
                                StatsRecord(<<>>, TableRows(daily_rankings, PrevDate(date))))
    /\ UNCHANGED <<job, now, token_manager, pc, attempt, log, artist_snapshots,
                   daily_rankings, cumulative_rankings, daily_top20, weekly_rankings,
                   tie_break>>

\* main() with SNAPSHOT_DATE = date when the snapshot of that date is empty:
\* raise ValueError
RunRankingNoSnapshot(date) ==
    /\ CanStart
    /\ fetch_snapshot(date) = EmptyFrame
    /\ runs_left' = runs_left - 1
    /\ snapshot_date' = date
    /\ result' = "raised"
    /\ run' = [NewRun(date) EXCEPT !.error = "no snapshot", !.network = TRUE]
    /\ df_diff' = EmptyFrame
    /\ ranking_raw' = <<>>
    /\ UNCHANGED <<job, now, token_manager, pc, attempt, log, artist_snapshots,
                   tableVars, tie_break>>

\* main() with SNAPSHOT_DATE = date, up to the records of daily_rankings:
\* score the artists of that date against the previous date, rank them and
\* join the rank and the score they had on the previous date
RunRanking(date) ==
    /\ CanStart
    /\ fetch_snapshot(date) # EmptyFrame
    /\ runs_left' = runs_left - 1
    /\ snapshot_date' = date
    /\ result' = "running"
    /\ pc' = "daily_rankings"
    /\ df_diff' = DiffFrame(fetch_snapshot(date), fetch_snapshot(PrevDate(date)))
    /\ \E tb \in TieBreaks :
          /\ MayBreakTiesAs(tb, HasTies(df_diff'))
          /\ tie_break' = IF HasTies(df_diff') THEN tb ELSE tie_break
          /\ ranking_raw' = RankedFrame(df_diff', DailyOrder(df_diff', tb))
    /\ LET df_prev_rankings == TableRows(daily_rankings, PrevDate(date))
           ranking_points == RankingPoints(ranking_raw', df_diff', df_prev_rankings)
       IN run' = [NewRun(date) EXCEPT
                     !.network = TRUE,
                     !.df_prev_rankings = df_prev_rankings,
                     !.ranking_points = ranking_points,
                     !.records = RankingRecords(ranking_points)]
    /\ UNCHANGED <<job, now, token_manager, attempt, log, artist_snapshots, tableVars>>

\* one turn of the loop that upserts the records of daily_rankings
UpsertDailyBatch ==
    /\ pc = "daily_rankings"
    /\ daily_rankings' = Upsert(daily_rankings, run.date, Batch(run.records, run.start))
    /\ IF run.start + batch_size < Len(run.records)
       THEN /\ run' = [run EXCEPT !.start = @ + batch_size, !.upserts = @ + 1]
            /\ pc' = pc
       ELSE /\ run' = [run EXCEPT !.start = 0, !.upserts = @ + 1]
            /\ pc' = "daily_stats"
    /\ UNCHANGED <<job, now, token_manager, attempt, result, log, artist_snapshots,
                   snapshot_date, df_diff, ranking_raw, daily_stats,
                   cumulative_rankings, daily_top20, weekly_rankings, tie_break,
                   runs_left>>

\* the upsert of stats_record into daily_stats
UpsertStats ==
    /\ pc = "daily_stats"
    /\ daily_stats' = UpsertRow(daily_stats, run.date,
                                StatsRecord(run.ranking_points, run.df_prev_rankings))
    /\ run' = [run EXCEPT !.upserts = @ + 1]
    /\ pc' = "prev_cumulative"
    /\ UNCHANGED <<job, now, token_manager, attempt, result, log, artist_snapshots,
                   snapshot_date, df_diff, ranking_raw, daily_rankings,
                   cumulative_rankings, daily_top20, weekly_rankings, tie_break,
                   runs_left>>

\* the select of the cumulative rows of prev_date, and the new totals, sorted
\* and ranked
ReadPrevCumulative ==
    /\ pc = "prev_cumulative"
    /\ LET merged == Merged(ranking_raw, df_diff,
                            TableRows(cumulative_rankings, PrevDate(run.date)))
       IN \E tb \in TieBreaks :
             /\ MayBreakTiesAs(tb, HasCumulativeTies(merged))
             /\ tie_break' = IF HasCumulativeTies(merged) THEN tb ELSE tie_break
             /\ run' = [run EXCEPT !.cumulative_records = CumulativeRecords(merged, tb)]
    /\ pc' = "cumulative_rankings"
    /\ UNCHANGED <<job, now, token_manager, attempt, result, log, artist_snapshots,
                   snapshot_date, df_diff, ranking_raw, tableVars, runs_left>>

\* one turn of the loop that upserts the records of cumulative_rankings
UpsertCumulativeBatch ==
    /\ pc = "cumulative_rankings"
    /\ cumulative_rankings' =
           Upsert(cumulative_rankings, run.date, Batch(run.cumulative_records, run.start))
    /\ IF run.start + batch_size < Len(run.cumulative_records)
       THEN /\ run' = [run EXCEPT !.start = @ + batch_size, !.upserts = @ + 1]
            /\ pc' = pc
       ELSE /\ run' = [run EXCEPT !.start = 0, !.upserts = @ + 1]
            /\ pc' = "top20"
    /\ UNCHANGED <<job, now, token_manager, attempt, result, log, artist_snapshots,
                   snapshot_date, df_diff, ranking_raw, daily_rankings, daily_stats,
                   daily_top20, weekly_rankings, tie_break, runs_left>>

\* the rest of main(): require_env of the Spotify credentials, the requests
\* for the top 20 and the upsert of daily_top20
FetchTop20(outcome) ==
    /\ pc = "top20"
    /\ pc' = "ranking_job"
    /\ IF outcome = "ok"
       THEN /\ daily_top20' = Upsert(daily_top20, run.date,
                                     Top20Records(run.ranking_points))
            /\ run' = [run EXCEPT !.upserts = @ + 1]
            /\ result' = "saved"
       ELSE /\ daily_top20' = daily_top20
            /\ run' = [run EXCEPT !.error = IF outcome = "config" THEN "config"
                                             ELSE "spotify"]
            /\ result' = "raised"
    /\ UNCHANGED <<job, now, token_manager, attempt, log, artist_snapshots,
                   snapshot_date, df_diff, ranking_raw, daily_rankings, daily_stats,
                   cumulative_rankings, weekly_rankings, tie_break, runs_left>>

\* the process of the job is killed between two requests
Kill ==
    /\ pc \in RunningPcs
    /\ pc' = "ranking_job"
    /\ result' = "killed"
    /\ UNCHANGED <<job, now, token_manager, attempt, log, artist_snapshots,
                   snapshot_date, df_diff, ranking_raw, tableVars, tie_break, run,
                   runs_left>>

NextRank ==
    \/ RunRankingNoConfig
    \/ \E date \in Dates : RunRankingNoSnapshot(date)
    \/ \E date \in Dates : RunRanking(date)
    \/ UpsertDailyBatch
    \/ UpsertStats
    \/ ReadPrevCumulative
    \/ UpsertCumulativeBatch
    \/ \E outcome \in SpotifyOutcomes : FetchTop20(outcome)
    \/ Kill

SpecRank == InitRank /\ [][NextRank]_vars

\* the daily runs, one date after the other or not, on the snapshots the
\* snapshot job collected
InitDaily ==
    /\ job = "ranking"
    /\ now = 0
    /\ token_manager = NewTokenManager(0)
    /\ pc = "ranking_job"
    /\ attempt = 0
    /\ result = "pending"
    /\ log = <<>>
    /\ \E late \in LateArtists : artist_snapshots = DailySnapshots(late)
    /\ snapshot_date = 0
    /\ df_diff = EmptyFrame
    /\ ranking_raw = <<>>
    /\ NoTables
    /\ tie_break = None
    /\ run = [job |-> None]
    /\ runs_left = MaxRuns

SpecDaily == InitDaily /\ [][NextRank]_vars

\* one run of the ranking job on the collected snapshots when daily_rankings
\* already holds rows of the second date, cut down to the columns main()
\* selects of the date before; the scores stored are none, 0, or 50 below
\* what the first artist scores on the third date
PrevScores == {Num(0), Num(73), NaN}

\* the stored rows of the artists of scores, ranked by their score
StoredRankings(scores) ==
    LET df == [g \in DOMAIN scores |-> [score |-> scores[g]]]
        o == DailyOrder(df, "stable")
    IN [g \in DOMAIN scores |->
          [group_id |-> g,
           rank |-> Num(CHOOSE i \in DOMAIN o : o[i] = g),
           score |-> scores[g],
           artist_popularity |-> Num(5),
           track_popularity_sum_ratio |-> Num(0)]]

InitPoints ==
    /\ job = "ranking"
    /\ now = 0
    /\ token_manager = NewTokenManager(0)
    /\ pc = "ranking_job"
    /\ attempt = 0
    /\ result = "pending"
    /\ log = <<>>
    /\ \E late \in LateArtists : artist_snapshots = DailySnapshots(late)
    /\ snapshot_date = 0
    /\ df_diff = EmptyFrame
    /\ ranking_raw = <<>>
    /\ \E ranked \in SUBSET Artists :
          \E scores \in [ranked -> PrevScores] :
              daily_rankings = IF ranked = {} THEN [d \in {} |-> d]
                               ELSE [d \in {2} |-> StoredRankings(scores)]
    /\ daily_stats = [d \in {} |-> d]
    /\ cumulative_rankings = [d \in {} |-> d]
    /\ daily_top20 = [d \in {} |-> d]
    /\ weekly_rankings = [d \in {} |-> d]
    /\ tie_break = None
    /\ run = [job |-> None]
    /\ runs_left = 1

SpecPoints == InitPoints /\ [][NextRank]_vars

(***************************************************************************)
(* Two runs of the ranking job for one date at the same time               *)
(***************************************************************************)
Processes == {1, 2}

\* the local variables of one of the two runs
IdleProcess ==
    [pc |-> "idle", error |-> None, df_prev_rankings |-> EmptyFrame,
     ranking_points |-> <<>>, records |-> <<>>, cumulative_records |-> <<>>,
     start |-> 0]

\* mixed tells that one run upserted a batch of daily_rankings between two
\* batches of the other
NewOverlap(date) ==
    [job |-> "overlap", date |-> date, mixed |-> FALSE,
     procs |-> [p \in Processes |-> IdleProcess]]

\* main() of run p with SNAPSHOT_DATE = date, up to the records of
\* daily_rankings; the second run starts for the date of the first
OverlapStart(p, date) ==
    /\ IF run.job = "overlap"
       THEN run.procs[p].pc = "idle" /\ date = run.date
       ELSE CanStart
    /\ fetch_snapshot(date) # EmptyFrame
    /\ runs_left' = 0
    /\ snapshot_date' = date
    /\ result' = "running"
    /\ pc' = "overlap"
    /\ df_diff' = DiffFrame(fetch_snapshot(date), fetch_snapshot(PrevDate(date)))
    /\ \E tb \in TieBreaks :
          /\ MayBreakTiesAs(tb, HasTies(df_diff'))
          /\ tie_break' = IF HasTies(df_diff') THEN tb ELSE tie_break
          /\ ranking_raw' = RankedFrame(df_diff', DailyOrder(df_diff', tb))
    /\ LET df_prev_rankings == TableRows(daily_rankings, PrevDate(date))
           ranking_points == RankingPoints(ranking_raw', df_diff', df_prev_rankings)
           overlap == IF run.job = "overlap" THEN run ELSE NewOverlap(date)
       IN run' = [overlap EXCEPT
                     !.procs[p].pc = "daily_rankings",
                     !.procs[p].df_prev_rankings = df_prev_rankings,
                     !.procs[p].ranking_points = ranking_points,
                     !.procs[p].records = RankingRecords(ranking_points)]
    /\ UNCHANGED <<job, now, token_manager, attempt, log, artist_snapshots, tableVars>>

\* run p is at position at
OverlapAt(p, at) == pc = "overlap" /\ run.procs[p].pc = at

\* the other run is between two of its batches of daily_rankings
OtherMidBatches(p) ==
    \E q \in Processes \ {p} :
        run.procs[q].pc = "daily_rankings" /\ run.procs[q].start > 0

\* one turn of the loop of run p that upserts the records of daily_rankings
OverlapUpsertDaily(p) ==
    /\ OverlapAt(p, "daily_rankings")
    /\ LET self == run.procs[p]
       IN /\ daily_rankings' = Upsert(daily_rankings, run.date,
                                      Batch(self.records, self.start))
          /\ run' = [run EXCEPT
                        !.mixed = @ \/ OtherMidBatches(p),
                        !.procs[p].start =
                            IF self.start + batch_size < Len(self.records)
                            THEN self.start + batch_size ELSE 0,
                        !.procs[p].pc =
                            IF self.start + batch_size < Len(self.records)
                            THEN "daily_rankings" ELSE "daily_stats"]
    /\ UNCHANGED <<job, now, token_manager, pc, attempt, result, log,
                   artist_snapshots, snapshot_date, df_diff, ranking_raw, daily_stats,
                   cumulative_rankings, daily_top20, weekly_rankings, tie_break,
                   runs_left>>

\* the upsert of the stats_record of run p
OverlapUpsertStats(p) ==
    /\ OverlapAt(p, "daily_stats")
    /\ daily_stats' = UpsertRow(daily_stats, run.date,
                                StatsRecord(run.procs[p].ranking_points,
                                            run.procs[p].df_prev_rankings))
    /\ run' = [run EXCEPT !.procs[p].pc = "prev_cumulative"]
    /\ UNCHANGED <<job, now, token_manager, pc, attempt, result, log,
                   artist_snapshots, snapshot_date, df_diff, ranking_raw,
                   daily_rankings, cumulative_rankings, daily_top20, weekly_rankings,
                   tie_break, runs_left>>

\* mutant: run p reads the cumulative rows of its own date
OverlapReadPrevCumulative_today(p) ==
    /\ OverlapAt(p, "prev_cumulative")
    /\ LET merged == Merged(ranking_raw, df_diff,
                            TableRows(cumulative_rankings, run.date))
       IN \E tb \in TieBreaks :
             /\ MayBreakTiesAs(tb, HasCumulativeTies(merged))
             /\ tie_break' = IF HasCumulativeTies(merged) THEN tb ELSE tie_break
             /\ run' = [run EXCEPT
                           !.procs[p].cumulative_records = CumulativeRecords(merged, tb),
                           !.procs[p].pc = "cumulative_rankings"]
    /\ UNCHANGED <<job, now, token_manager, pc, attempt, result, log,
                   artist_snapshots, snapshot_date, df_diff, ranking_raw, tableVars,
                   runs_left>>

\* the select of run p of the cumulative rows of prev_date, and its new
\* totals, sorted and ranked
OverlapReadPrevCumulative(p) ==
    /\ OverlapAt(p, "prev_cumulative")
    /\ LET merged == Merged(ranking_raw, df_diff,
                            TableRows(cumulative_rankings, PrevDate(run.date)))
       IN \E tb \in TieBreaks :
             /\ MayBreakTiesAs(tb, HasCumulativeTies(merged))
             /\ tie_break' = IF HasCumulativeTies(merged) THEN tb ELSE tie_break
             /\ run' = [run EXCEPT
                           !.procs[p].cumulative_records = CumulativeRecords(merged, tb),
                           !.procs[p].pc = "cumulative_rankings"]
    /\ UNCHANGED <<job, now, token_manager, pc, attempt, result, log,
                   artist_snapshots, snapshot_date, df_diff, ranking_raw, tableVars,
                   runs_left>>

\* one turn of the loop of run p that upserts the records of
\* cumulative_rankings
OverlapUpsertCumulative(p) ==
    /\ OverlapAt(p, "cumulative_rankings")
    /\ LET self == run.procs[p]
       IN /\ cumulative_rankings' = Upsert(cumulative_rankings, run.date,
                                           Batch(self.cumulative_records, self.start))
          /\ run' = [run EXCEPT
                        !.procs[p].start =
                            IF self.start + batch_size < Len(self.cumulative_records)
                            THEN self.start + batch_size ELSE 0,
                        !.procs[p].pc =
                            IF self.start + batch_size < Len(self.cumulative_records)
                            THEN "cumulative_rankings" ELSE "top20"]
    /\ UNCHANGED <<job, now, token_manager, pc, attempt, result, log,
                   artist_snapshots, snapshot_date, df_diff, ranking_raw,
                   daily_rankings, daily_stats, daily_top20, weekly_rankings,
                   tie_break, runs_left>>

\* the rest of main() of run p
OverlapFetchTop20(p, outcome) ==
    /\ OverlapAt(p, "top20")
    /\ daily_top20' = IF outcome = "ok"
                      THEN Upsert(daily_top20, run.date,
                                  Top20Records(run.procs[p].ranking_points))
                      ELSE daily_top20
    /\ run' = [run EXCEPT
                  !.procs[p].pc = "done",
                  !.procs[p].error = IF outcome = "ok" THEN None
                                     ELSE IF outcome = "config" THEN "config"
                                     ELSE "spotify"]
    /\ result' = IF \A q \in Processes \ {p} : run.procs[q].pc = "done"
                 THEN "saved" ELSE result
    /\ UNCHANGED <<job, now, token_manager, pc, attempt, log, artist_snapshots,
                   snapshot_date, df_diff, ranking_raw, daily_rankings, daily_stats,
                   cumulative_rankings, weekly_rankings, tie_break, runs_left>>

NextOverlap ==
    \/ \E p \in Processes, date \in Dates : OverlapStart(p, date)
    \/ \E p \in Processes : OverlapUpsertDaily(p)
    \/ \E p \in Processes : OverlapUpsertStats(p)
    \/ \E p \in Processes : OverlapReadPrevCumulative(p)
    \/ \E p \in Processes : OverlapUpsertCumulative(p)
    \/ \E p \in Processes, outcome \in SpotifyOutcomes : OverlapFetchTop20(p, outcome)

\* the two runs start when every artist has a stored row of the second date
InitOverlap ==
    /\ InitPoints
    /\ DOMAIN TableRows(daily_rankings, 2) = Artists

SpecOverlap == InitOverlap /\ [][NextOverlap]_vars

(***************************************************************************)
(* The weekly ranking job                                                  *)
(***************************************************************************)
\* week_start_date = week_end_date - timedelta(days=6)
WeekDays == 6
WeekStart(week_end_date) == week_end_date - WeekDays

\* prev_week_end = week_end_date - timedelta(days=7)
PrevWeekDays == 7
PrevWeekEnd(week_end_date) == week_end_date - PrevWeekDays

\* the dates daily_rankings has rows of when the weekly job runs: a week and
\* NumDates more days; the job is run for the week ends that have a whole
\* week before them
WeekDates == 1 .. (WeekDays + NumDates)
WeekEnds == { date \in WeekDates : date > WeekDays }

\* how many rows daily_rankings holds at most when the weekly job runs
MaxDailyRows == 3

\* the row the ranking job stored for g on date, cut down to the columns the
\* weekly job selects; some scores are null, some negative
StoredDailyRow(g, date) ==
    [group_id |-> g,
     score |-> IF (g + date) % 5 = 0 THEN NaN ELSE Num(date * date - 10 * g),
     artist_popularity |-> Num(date)]

\* the number of rows of a table
RowCount(table) ==
    Cardinality({ <<date, g>> \in (DOMAIN table) \X Artists : g \in DOMAIN table[date] })

\* the select with gte(week_start_date) and lte(week_end_date): the dates of
\* the window on which daily_rankings has a row of g
WindowDates(week_end_date, g) ==
    { date \in DOMAIN daily_rankings :
        /\ date >= WeekStart(week_end_date)
        /\ date <= week_end_date
        /\ g \in DOMAIN daily_rankings[date] }

\* the group ids of df
WindowGroups(week_end_date) ==
    { g \in Artists : WindowDates(week_end_date, g) # {} }

\* mutant: the window is eight days long
WindowScores_from7(week_end_date, g) ==
    [date \in { d \in DOMAIN daily_rankings :
                  /\ d >= week_end_date - PrevWeekDays
                  /\ d <= week_end_date
                  /\ g \in DOMAIN daily_rankings[d] } |->
        [score |-> Fillna(daily_rankings[date][g].score, Num(0))]]

\* df["score"] = pd.to_numeric(df["score"], errors="coerce").fillna(0), the
\* rows of g
WindowScores(week_end_date, g) ==
    [date \in WindowDates(week_end_date, g) |->
        [score |-> Fillna(daily_rankings[date][g].score, Num(0))]]

\* totals: df.groupby("group_id")["score"].sum()
TotalScore(week_end_date, g) ==
    LET scores == WindowScores(week_end_date, g)
    IN SumScores(scores, DOMAIN scores)

\* latest: the artist_popularity of the last day of g in the window
LatestPopularity(week_end_date, g) ==
    LET last == CHOOSE date \in WindowDates(week_end_date, g) :
                    \A other \in WindowDates(week_end_date, g) : other <= date
    IN daily_rankings[last][g].artist_popularity

\* ranking = totals.merge(latest, on="group_id", how="left"), one row for a
\* group, the groups in the order of groupby
WeeklyFrame(week_end_date) ==
    [g \in WindowGroups(week_end_date) |->
        [group_id |-> g,
         total_score |-> TotalScore(week_end_date, g),
         artist_popularity |-> LatestPopularity(week_end_date, g)]]

\* the frame has rows of equal total_score
HasWeeklyTies(ranking) ==
    \E g, h \in DOMAIN ranking : g # h /\ ranking[g].total_score = ranking[h].total_score

\* ranking.sort_values(by="total_score", ascending=False)
WeeklyOrder(ranking, tb) ==
    CHOOSE o \in [1 .. Cardinality(DOMAIN ranking) -> DOMAIN ranking] :
        /\ \A i, j \in DOMAIN o : i # j => o[i] # o[j]
        /\ \A i, j \in DOMAIN o : i < j =>
              \/ Gt(ranking[o[i]].total_score, ranking[o[j]].total_score)
              \/ /\ ranking[o[i]].total_score = ranking[o[j]].total_score
                 /\ IF tb = "reversed" THEN o[i] > o[j] ELSE o[i] < o[j]

\* records of main(): rank, prev_rank of the week before, total and popularity
WeeklyRecords(ranking, df_prev, tb) ==
    LET o == WeeklyOrder(ranking, tb)
    IN [i \in DOMAIN o |->
           [group_id |-> o[i],
            rank |-> Num(RankAt(i)),
            prev_rank |-> to_int(PrevColumn(df_prev, o[i], "rank")),
            total_score |-> to_float(ranking[o[i]].total_score),
            artist_popularity |-> to_int(ranking[o[i]].artist_popularity)]]

\* the number of upsert requests that store n records
Batches(n) == (n + batch_size - 1) \div batch_size

\* the local variables of a run of the weekly main()
NewWeeklyRun(week_end_date) ==
    [job |-> "weekly", date |-> week_end_date, error |-> None,
     network |-> FALSE, upserts |-> 0, records |-> <<>>,
     before |-> AllTables]

\* daily_rankings when the weekly job is first looked at: the ranking job has
\* stored the row of the first artist on the first date
FirstDailyRow == Upsert([d \in {} |-> d], 1, <<StoredDailyRow(1, 1)>>)

InitWeekly ==
    /\ job = "weekly"
    /\ now = 0
    /\ token_manager = NewTokenManager(0)
    /\ pc = "weekly_job"
    /\ attempt = 0
    /\ result = "pending"
    /\ log = <<>>
    /\ artist_snapshots = [d \in {} |-> d]
    /\ snapshot_date = 0
    /\ df_diff = EmptyFrame
    /\ ranking_raw = <<>>
    /\ daily_rankings = FirstDailyRow
    /\ daily_stats = [d \in {} |-> d]
    /\ cumulative_rankings = [d \in {} |-> d]
    /\ daily_top20 = [d \in {} |-> d]
    /\ weekly_rankings = [d \in {} |-> d]
    /\ tie_break = None
    /\ run = [job |-> None]
    /\ runs_left = 1

\* before the weekly job runs, the ranking job stores a row of daily_rankings
StoreDailyRow(date, g) ==
    /\ pc = "weekly_job"
    /\ runs_left > 0
    /\ RowCount(daily_rankings) < MaxDailyRows
    /\ g \notin DOMAIN TableRows(daily_rankings, date)
    /\ daily_rankings' = Upsert(daily_rankings, date, <<StoredDailyRow(g, date)>>)
    /\ UNCHANGED <<job, now, token_manager, pc, attempt, result, log,
                   artist_snapshots, snapshot_date, df_diff, ranking_raw,
                   daily_stats, cumulative_rankings, daily_top20, weekly_rankings,
                   tie_break, run, runs_left>>

\* the weekly main() when SUPABASE_URL or SUPABASE_SERVICE_ROLE_KEY is not set
RunWeeklyNoConfig ==
    /\ pc = "weekly_job"
    /\ runs_left > 0
    /\ runs_left' = runs_left - 1
    /\ result' = "raised"
    /\ run' = [NewWeeklyRun(0) EXCEPT !.error = "config"]
    /\ UNCHANGED <<job, now, token_manager, pc, attempt, log, artist_snapshots,
                   snapshot_date, df_diff, ranking_raw, tableVars, tie_break>>

\* the weekly main() with WEEK_END_DATE = week_end_date when daily_rankings
\* has no row of the week: raise ValueError
RunWeeklyNoData(week_end_date) ==
    /\ pc = "weekly_job"
    /\ runs_left > 0
    /\ WindowGroups(week_end_date) = {}
    /\ runs_left' = runs_left - 1
    /\ result' = "raised"
    /\ run' = [NewWeeklyRun(week_end_date) EXCEPT !.error = "no data", !.network = TRUE]
    /\ UNCHANGED <<job, now, token_manager, pc, attempt, log, artist_snapshots,
                   snapshot_date, df_diff, ranking_raw, tableVars, tie_break>>

\* the weekly main() with WEEK_END_DATE = week_end_date: total the week, rank
\* the totals and upsert them into weekly_rankings
RunWeekly(week_end_date) ==
    /\ pc = "weekly_job"
    /\ runs_left > 0
    /\ WindowGroups(week_end_date) # {}
    /\ runs_left' = runs_left - 1
    /\ result' = "saved"
    /\ LET ranking == WeeklyFrame(week_end_date)
           df_prev == TableRows(weekly_rankings, PrevWeekEnd(week_end_date))
       IN \E tb \in TieBreaks :
             /\ MayBreakTiesAs(tb, HasWeeklyTies(ranking))
             /\ tie_break' = IF HasWeeklyTies(ranking) THEN tb ELSE tie_break
             /\ run' = [NewWeeklyRun(week_end_date) EXCEPT
                           !.network = TRUE,
                           !.records = WeeklyRecords(ranking, df_prev, tb),
                           !.upserts = Batches(Cardinality(DOMAIN ranking))]
             /\ weekly_rankings' = Upsert(weekly_rankings, week_end_date,
                                          WeeklyRecords(ranking, df_prev, tb))
    /\ UNCHANGED <<job, now, token_manager, pc, attempt, log, artist_snapshots,
                   snapshot_date, df_diff, ranking_raw, daily_rankings, daily_stats,
                   cumulative_rankings, daily_top20>>

NextWeekly ==
    \/ \E date \in WeekDates, g \in Artists : StoreDailyRow(date, g)
    \/ RunWeeklyNoConfig
    \/ \E week_end_date \in WeekEnds : RunWeeklyNoData(week_end_date)
    \/ \E week_end_date \in WeekEnds : RunWeekly(week_end_date)

SpecWeekly == InitWeekly /\ [][NextWeekly]_vars

(***************************************************************************)
(* calculate_change_stats called on its own                                *)
(***************************************************************************)
\* the counts go up to MaxCount; the averages are also negative and fractions
MaxCount == 4
StatValues ==
    {NaN} \cup { Num(i) : i \in 0 .. MaxCount }
          \cup { Rat(-i, 2) : i \in 1 .. MaxCount }

InitStats ==
    /\ job = "ranking"
    /\ now = 0
    /\ token_manager = NewTokenManager(0)
    /\ pc = "calculate_change_stats"
    /\ attempt = 0
    /\ result = "pending"
    /\ log = <<>>
    /\ artist_snapshots = [d \in {} |-> d]
    /\ snapshot_date = 0
    /\ df_diff = EmptyFrame
    /\ ranking_raw = <<>>
    /\ NoTables
    /\ tie_break = None
    /\ \E today_val, yesterday_val \in StatValues :
          run = [job |-> "stats", today_val |-> today_val,
                 yesterday_val |-> yesterday_val]
    /\ runs_left = 1

\* calculate_change_stats(today_val, yesterday_val) returns
CallChangeStats ==
    /\ pc = "calculate_change_stats"
    /\ runs_left > 0
    /\ runs_left' = runs_left - 1
    /\ result' = calculate_change_stats(run.today_val, run.yesterday_val)
    /\ UNCHANGED <<job, now, token_manager, pc, attempt, log, artist_snapshots,
                   snapshot_date, df_diff, ranking_raw, tableVars, tie_break, run>>

NextStats == CallChangeStats

SpecStats == InitStats /\ [][NextStats]_vars

(***************************************************************************)
(* The snapshot job                                                        *)
(***************************************************************************)
\* the rows of imd.external_ids with service = spotify, external_id renamed
\* to spotify_id: none or the first artists, the spotify_id of a group
\* written like its group_id; or two spotify ids of one group; or a
\* spotify_id that is there twice
IdentityRegistry(k) == [i \in 1 .. k |-> [spotify_id |-> i, group_id |-> i]]

Registries ==
    { IdentityRegistry(k) : k \in 0 .. NumArtists }
        \cup { <<[spotify_id |-> 1, group_id |-> 1], [spotify_id |-> 2, group_id |-> 1]>>,
               Append(IdentityRegistry(1), [spotify_id |-> 1, group_id |-> 2]) }

\* df_ids.drop_duplicates(subset="spotify_id"): the first row of every
\* spotify_id stays
RECURSIVE fetch_spotify_ids(_)
fetch_spotify_ids(registry) ==
    IF registry = <<>> THEN <<>>
    ELSE LET n == Len(registry)
             front == fetch_spotify_ids(SubSeq(registry, 1, n - 1))
         IN IF \E i \in 1 .. n - 1 : registry[i].spotify_id = registry[n].spotify_id
            THEN front
            ELSE Append(front, registry[n])

\* df_ids: what fetch_spotify_ids returns
Rosters == { fetch_spotify_ids(registry) : registry \in Registries }

\* how a call of make_spotify_request ends: the parsed body, None, or the
\* exception of a token that is not available
Unavailable(kind) ==
    [kind |-> kind, name |-> "N/A", popularity |-> 0, followers |-> 0,
     popularity_sum |-> 0, new_releases |-> 0]

\* the bodies of /artists/{id}: one whole, one with no followers yet
InfoOutcomes ==
    { Unavailable("none"), Unavailable("raised"),
      [Unavailable("body") EXCEPT !.name = "artist", !.popularity = 5, !.followers = 10],
      [Unavailable("body") EXCEPT !.name = "artist", !.popularity = 5] }

\* the bodies of /artists/{id}/top-tracks, as the sum of the popularities and
\* the number of tracks released in the last 7 days
TrackOutcomes ==
    { Unavailable("none"), Unavailable("raised"),
      [Unavailable("body") EXCEPT !.popularity_sum = 30, !.new_releases = 1] }

\* the record fetch_snapshot appends for one artist
SnapshotRecord(spotify_id, info, tracks) ==
    [spotify_id |-> spotify_id,
     name |-> IF info.kind = "body" THEN info.name ELSE "N/A",
     artist_popularity |-> IF info.kind = "body" THEN info.popularity ELSE 0,
     followers |-> IF info.kind = "body" THEN info.followers ELSE 0,
     track_popularity_sum |-> IF tracks.kind = "body" THEN tracks.popularity_sum ELSE 0,
     new_release_count |-> IF tracks.kind = "body" THEN tracks.new_releases ELSE 0]

\* na_ids: the records with no name, or with a popularity but no followers
NeedsRetry(record) ==
    \/ record.name = "N/A"
    \/ (record.followers = 0 /\ record.artist_popularity > 0)

\* df_ids[df_ids["spotify_id"].isin(na_ids)]
RetryIds(df_ids, df_snapshot) ==
    SelectSeq(df_ids,
              LAMBDA row : \E i \in DOMAIN df_snapshot :
                               /\ df_snapshot[i].spotify_id = row.spotify_id
                               /\ NeedsRetry(df_snapshot[i]))

\* df_snapshot.update(retry_df), both indexed by spotify_id: the cells of
\* retry_df, none of them missing, replace the cells of their rows
Update(df_snapshot, retry_df) ==
    [i \in DOMAIN df_snapshot |->
        IF \E j \in DOMAIN retry_df : retry_df[j].spotify_id = df_snapshot[i].spotify_id
        THEN retry_df[CHOOSE j \in DOMAIN retry_df :
                          retry_df[j].spotify_id = df_snapshot[i].spotify_id]
        ELSE df_snapshot[i]]

\* for round_num in range(3)
RetryRounds == 3

\* time.sleep(5) before a retry round
RetrySleep == 5

\* the records of upsert_snapshots: the snapshot merged with df_ids on
\* spotify_id, the numbers through to_int
SnapshotRecords(df_snapshot, df_ids) ==
    [i \in DOMAIN df_snapshot |->
        LET row == df_snapshot[i]
            id == CHOOSE j \in DOMAIN df_ids : df_ids[j].spotify_id = row.spotify_id
        IN [group_id |-> df_ids[id].group_id,
            spotify_id |-> row.spotify_id,
            name |-> row.name,
            artist_popularity |-> Num(row.artist_popularity),
            followers |-> Num(row.followers),
            track_popularity_sum |-> Num(row.track_popularity_sum),
            new_release_count |-> Num(row.new_release_count)]]

\* the local variables of a run of the snapshot main()
NewSnapshotRun(date, df_ids) ==
    [job |-> "snapshot", date |-> date, error |-> None,
     network |-> FALSE, upserts |-> 0,
     df_ids |-> df_ids,
     round |-> 0,           \* 0: the first pass, 1..3: the retry rounds
     todo |-> df_ids,       \* the rows fetch_snapshot still has to go through
     fetched |-> <<>>,      \* snapshot, the list fetch_snapshot fills
     df_snapshot |-> <<>>,
     before |-> AllTables]

InitSnapshot ==
    /\ job = "snapshot"
    /\ now = 0
    /\ token_manager = NewTokenManager(0)
    /\ pc = "snapshot_job"
    /\ attempt = 0
    /\ result = "pending"
    /\ log = <<>>
    /\ artist_snapshots = [d \in {} |-> d]
    /\ snapshot_date = 0
    /\ df_diff = EmptyFrame
    /\ ranking_raw = <<>>
    /\ NoTables
    /\ tie_break = None
    /\ run = [job |-> None]
    /\ runs_left = 1

\* the snapshot main() when SUPABASE_URL or SUPABASE_SERVICE_ROLE_KEY is not set
SnapshotNoConfig ==
    /\ pc = "snapshot_job"
    /\ runs_left > 0
    /\ runs_left' = runs_left - 1
    /\ result' = "raised"
    /\ run' = [NewSnapshotRun(0, <<>>) EXCEPT !.error = "config"]
    /\ UNCHANGED <<job, now, token_manager, pc, attempt, log, artist_snapshots,
                   snapshot_date, df_diff, ranking_raw, tableVars, tie_break>>

\* the snapshot main() when imd.external_ids has no row of spotify:
\* fetch_spotify_ids raises
SnapshotNoIds ==
    /\ pc = "snapshot_job"
    /\ runs_left > 0
    /\ runs_left' = runs_left - 1
    /\ result' = "raised"
    /\ run' = [NewSnapshotRun(0, <<>>) EXCEPT !.error = "no ids", !.network = TRUE]
    /\ UNCHANGED <<job, now, token_manager, pc, attempt, log, artist_snapshots,
                   snapshot_date, df_diff, ranking_raw, tableVars, tie_break>>

\* the snapshot main() when SPOTIFY_CLIENT_ID or SPOTIFY_CLIENT_SECRET is not
\* set: require_env raises after fetch_spotify_ids has read the roster
SnapshotNoSpotifyConfig(df_ids) ==
    /\ pc = "snapshot_job"
    /\ runs_left > 0
    /\ df_ids # <<>>
    /\ runs_left' = runs_left - 1
    /\ result' = "raised"
    /\ run' = [NewSnapshotRun(0, df_ids) EXCEPT !.error = "config", !.network = TRUE]
    /\ UNCHANGED <<job, now, token_manager, pc, attempt, log, artist_snapshots,
                   snapshot_date, df_diff, ranking_raw, tableVars, tie_break>>

\* SNAPSHOT_DATE, or today when it is not set: the first or the last date
SnapshotDates == {1, NumDates}

\* the snapshot main() with SNAPSHOT_DATE = date, up to the first pass
StartSnapshot(date, df_ids) ==
    /\ pc = "snapshot_job"
    /\ runs_left > 0
    /\ df_ids # <<>>
    /\ runs_left' = runs_left - 1
    /\ result' = "running"
    /\ pc' = "fetch_snapshot"
    /\ run' = [NewSnapshotRun(date, df_ids) EXCEPT !.network = TRUE]
    /\ UNCHANGED <<job, now, token_manager, attempt, log, artist_snapshots,
                   snapshot_date, df_diff, ranking_raw, tableVars, tie_break>>

\* one turn of the loop of fetch_snapshot: get_artist_info and
\* get_top_track_popularities for the next row; an exception of a call ends
\* the job
FetchArtist(info, tracks) ==
    /\ pc = "fetch_snapshot"
    /\ run.todo # <<>>
    /\ info.kind = "raised" => tracks = Unavailable("none")
    /\ IF info.kind = "raised" \/ tracks.kind = "raised"
       THEN /\ pc' = "snapshot_job"
            /\ result' = "raised"
            /\ run' = [run EXCEPT !.error = "spotify"]
       ELSE /\ pc' = pc
            /\ result' = result
            /\ run' = [run EXCEPT
                          !.todo = Tail(@),
                          !.fetched = Append(@, SnapshotRecord(Head(run.todo).spotify_id,
                                                               info, tracks))]
    /\ UNCHANGED <<job, now, token_manager, attempt, log, artist_snapshots,
                   snapshot_date, df_diff, ranking_raw, tableVars, tie_break,
                   runs_left>>

\* fetch_snapshot returns: the first pass gives df_snapshot, a retry round
\* updates it; then the next round starts after the sleep, if a record needs
\* it and a round is left
EndPass ==
    /\ pc = "fetch_snapshot"
    /\ run.todo = <<>>
    /\ LET df_snapshot == IF run.round = 0 THEN run.fetched
                          ELSE Update(run.df_snapshot, run.fetched)
           na_ids == RetryIds(run.df_ids, df_snapshot)
       IN IF run.round < RetryRounds /\ na_ids # <<>>
          THEN /\ run' = [run EXCEPT !.df_snapshot = df_snapshot, !.round = @ + 1,
                                     !.todo = na_ids, !.fetched = <<>>]
               /\ now' = now + Seconds(RetrySleep)
               /\ pc' = pc
          ELSE /\ run' = [run EXCEPT !.df_snapshot = df_snapshot, !.fetched = <<>>]
               /\ now' = now
               /\ pc' = "upsert_snapshots"
    /\ UNCHANGED <<job, token_manager, attempt, result, log, artist_snapshots,
                   snapshot_date, df_diff, ranking_raw, tableVars, tie_break,
                   runs_left>>

\* the batches of upsert_snapshots from start on, one request each: a batch
\* with two records of one key is refused by the database (ON CONFLICT DO
\* UPDATE cannot affect a row a second time) and the exception ends the job,
\* the batches before it stay
RECURSIVE UpsertBatches(_, _, _, _)
UpsertBatches(table, date, records, start) ==
    IF start >= Len(records)
    THEN [table |-> table, refused |-> FALSE, upserts |-> Batches(Len(records))]
    ELSE LET batch == Batch(records, start)
         IN IF \E i, j \in DOMAIN batch : i # j /\ batch[i].group_id = batch[j].group_id
            THEN [table |-> table, refused |-> TRUE, upserts |-> Batches(start)]
            ELSE UpsertBatches(Upsert(table, date, batch), date, records,
                               start + batch_size)

\* upsert_snapshots and update_group_images (the images are left out)
UpsertSnapshots ==
    /\ pc = "upsert_snapshots"
    /\ pc' = "snapshot_job"
    /\ LET upserted == UpsertBatches(artist_snapshots, run.date,
                                     SnapshotRecords(run.df_snapshot, run.df_ids), 0)
       IN /\ artist_snapshots' = upserted.table
          /\ result' = IF upserted.refused THEN "raised" ELSE "saved"
          /\ run' = [run EXCEPT
                        !.upserts = upserted.upserts,
                        !.error = IF upserted.refused THEN "duplicate key" ELSE @]
    /\ UNCHANGED <<job, now, token_manager, attempt, log, snapshot_date, df_diff,
                   ranking_raw, tableVars, tie_break, runs_left>>

NextSnapshot ==
    \/ SnapshotNoConfig
    \/ SnapshotNoIds
    \/ \E df_ids \in Rosters : SnapshotNoSpotifyConfig(df_ids)
    \/ \E date \in SnapshotDates, df_ids \in Rosters : StartSnapshot(date, df_ids)
    \/ \E info \in InfoOutcomes, tracks \in TrackOutcomes : FetchArtist(info, tracks)
    \/ EndPass
    \/ UpsertSnapshots

SpecSnapshot == InitSnapshot /\ [][NextSnapshot]_vars

(***************************************************************************)
(* The three jobs side by side, each started on its own                    *)
(***************************************************************************)
InitJobs == InitDaily \/ InitWeekly \/ InitSnapshot

NextJobs == NextRank \/ NextWeekly \/ NextSnapshot

SpecJobs == InitJobs /\ [][NextJobs]_vars

(***************************************************************************)
(* Reading the log of a call                                               *)
(***************************************************************************)
IsGet(e) == e.ev = "get"
IsSleep(e) == e.ev = "sleep"
IsFetch(e) == e.ev = "fetch"
\* a GET that came back with an HTTP status (status 0 marks a RequestException)
IsResponse(e) == IsGet(e) /\ e.status # 0
IsBackoffOutcome(e) == IsGet(e) /\ (e.status = 0 \/ e.status >= 500)
IsRetryableOutcome(e) == IsGet(e) /\ (e.status \in {0, 401, 429} \/ e.status >= 500)
Gets == SelectSeq(log, IsGet)
Sleeps == SelectSeq(log, IsSleep)
Finished == pc # "running"

(***************************************************************************)
(* C1: make_spotify_request never raises out to its caller: whatever the   *)
(* attempts meet (statuses, transport exceptions, failed token             *)
(* acquisitions) the call ends with the parsed body or with None.          *)
(***************************************************************************)
C1_NeverRaises == pc # "raised" /\ (Finished => result \in {"body", "none"})

(***************************************************************************)
(* C2: a call issues at most 5 GETs; it returns the body iff some attempt  *)
(* k gets a 200 and every attempt before k ended in a retryable outcome,   *)
(* and it returns None in every other case.                                *)
(***************************************************************************)
C2_Got200 ==
    \E k \in 1 .. Len(Gets) :
        /\ Gets[k].status = 200
        /\ k <= max_retries
        /\ \A m \in 1 .. (k - 1) : IsRetryableOutcome(Gets[m])

C2_BodyIffOk200 ==
    /\ Len(Gets) <= max_retries
    /\ Finished => IF C2_Got200 THEN result = "body" ELSE result = "none"

(***************************************************************************)
(* C3: in the client of every job a 401 is followed by a forced token      *)
(* fetch before the next attempt, with no sleep in between, and the 401    *)
(* uses up one of the attempts.                                            *)
(***************************************************************************)
C3_ForceRefreshOn401 ==
    \A p \in 1 .. Len(log) :
        (IsGet(log[p]) /\ log[p].status = 401) =>
            /\ p < Len(log)
            /\ IsFetch(log[p + 1])
            /\ log[p + 1].forced
            /\ attempt > log[p].attempt

(***************************************************************************)
(* C4 as stated: an attempt of index i that ends in a 5xx or a transport   *)
(* exception is followed by a sleep in [2^i, 2^i + 1) seconds and then by  *)
(* another attempt.                                                        *)
(***************************************************************************)
C4_BackoffSleep(p) ==
    /\ p < Len(log)
    /\ IsSleep(log[p + 1])
    /\ log[p + 1].dur >= (2 ^ log[p].attempt) * TicksPerSecond
    /\ log[p + 1].dur < (2 ^ log[p].attempt + 1) * TicksPerSecond

\* the loop stands at its next iteration, or has already run it
C4_AnotherAttempt(p) == pc = "running" \/ Len(log) > p + 1

C4_BackoffThenAttempt ==
    \A p \in 1 .. Len(log) :
        IsBackoffOutcome(log[p]) => C4_BackoffSleep(p) /\ C4_AnotherAttempt(p)

(***************************************************************************)
(* C4 amended: the sleep in [2^i, 2^i + 1) seconds always follows; another *)
(* attempt follows it when i < 4, and after the fifth attempt (i = 4) the  *)
(* call returns None with no further attempt.  The responses 500, 500, 200 *)
(* give the body after exactly two sleeps, of bases 1s and 2s.             *)
(***************************************************************************)
C4_Statuses == [k \in 1 .. Len(Gets) |-> Gets[k].status]

C4_BackoffWithinLimit ==
    /\ \A p \in 1 .. Len(log) :
          IsBackoffOutcome(log[p]) =>
              /\ C4_BackoffSleep(p)
              /\ IF log[p].attempt < 4
                 THEN C4_AnotherAttempt(p)
                 ELSE pc = "returned" /\ result = "none" /\ Len(log) = p + 1
    /\ C4_Statuses = <<500, 500, 200>> =>
          /\ result = "body"
          /\ Len(Sleeps) = 2
          /\ Sleeps[1].dur \in (1 * TicksPerSecond) .. (2 * TicksPerSecond - 1)
          /\ Sleeps[2].dur \in (2 * TicksPerSecond) .. (3 * TicksPerSecond - 1)

C4_Witness ==
    /\ C4_Statuses = <<500, 500, 200>>
    /\ result = "body"

C6_OtherStatusReturnsNone ==
    \A p \in 1 .. Len(log) :
        (IsResponse(log[p]) /\ log[p].status \notin {200, 401, 429} /\ log[p].status < 500) =>
            /\ p = Len(log)
            /\ pc = "returned"
            /\ result = "none"

C6_Witness ==
    /\ Len(log) > 2
    /\ IsGet(log[Len(log)])
    /\ log[Len(log)].status = 404
    /\ result = "none"

(***************************************************************************)
(* C7: get_token fetches iff no token is cached or now >= the expiry time, *)
(* and at most once per call; a successful fetch sets the expiry time to   *)
(* fetch time + expires_in - 300s; a failed fetch leaves the token None;   *)
(* without a fetch the cached token is returned and nothing changes.       *)
(***************************************************************************)
C7_GetTokenFetchesIffStale ==
    (Len(log) > 0 /\ log[1].ev = "call" /\ log[1].op = "get_token") =>
        LET before == log[1].tm
            at == log[1].at
            fetched == Len(log) > 1
        IN /\ Len(log) <= 2
           /\ fetched <=> (before.token = None \/ at >= before.token_expiry_time)
           /\ (fetched /\ log[2].ok) =>
                 /\ token_manager.token # None
                 /\ token_manager.token_expiry_time
                      = at + (log[2].expires_in - 300) * TicksPerSecond
           /\ (fetched /\ ~log[2].ok) => token_manager.token = None
           /\ ~fetched => token_manager = before
           /\ result = token_manager.token

\* a get_token that finds the token None after a failed fetch, although the
\* expiry time of an earlier token is still ahead, and fetches again
C7_Witness ==
    /\ Len(log) = 2
    /\ log[1].ev = "call"
    /\ log[1].op = "get_token"
    /\ log[1].tm.token = None
    /\ log[1].at < log[1].tm.token_expiry_time
    /\ log[1].at > 0
    /\ log[2].ok

(***************************************************************************)
(* Reading a run of the ranking job                                        *)
(***************************************************************************)
Ranked == run.job = "ranking" /\ df_diff # EmptyFrame
TodayRows == artist_snapshots[snapshot_date]
HasPrevRow(g) ==
    /\ snapshot_date - 1 \in DOMAIN artist_snapshots
    /\ g \in DOMAIN artist_snapshots[snapshot_date - 1]
IsZero(x) == ~x.isna /\ x.n = 0

(***************************************************************************)
(* C8: an artist in today's snapshot with no row for the previous date     *)
(* (the previous date may have no rows at all) gets popularity_delta,      *)
(* followers_ratio, track_popularity_sum_ratio and new_release_count 0,    *)
(* whatever today's raw values, and so a score of exactly 0.               *)
(***************************************************************************)
C8_FirstSeenAllZero ==
    Ranked =>
        \A g \in DOMAIN TodayRows :
            ~HasPrevRow(g) =>
                /\ g \in DOMAIN df_diff
                /\ IsZero(df_diff[g].popularity_delta)
                /\ IsZero(df_diff[g].followers_ratio)
                /\ IsZero(df_diff[g].track_popularity_sum_ratio)
                /\ IsZero(df_diff[g].new_release_count)
                /\ IsZero(df_diff[g].score)

\* a first-seen artist with popularity 5, followers and a release, next to an artist
\* that has a row for the previous date
C8_Witness ==
    /\ Ranked
    /\ \E g, h \in DOMAIN TodayRows :
        /\ ~HasPrevRow(g)
        /\ HasPrevRow(h)
        /\ TodayRows[g].artist_popularity = Num(5)
        /\ TodayRows[g].followers = Num(10)
        /\ TodayRows[g].new_release_count = Num(1)
        /\ df_diff[g].score = Num(0)

(***************************************************************************)
(* C9: when today's popularity is 0, 1, 2 or missing the score, and with   *)
(* it score_points, is exactly 0 whatever the four columns hold; for every *)
(* other artist the score is popularity_delta*3.0 + followers_ratio*2.0 +  *)
(* track_popularity_sum_ratio*1.0 + new_release_count*0.3.                 *)
(***************************************************************************)
C9_Weighted(r) ==
    Add(Add(Add(Mul(r.popularity_delta, Rat(30, 10)),
                Mul(r.followers_ratio, Rat(20, 10))),
            Mul(r.track_popularity_sum_ratio, Rat(10, 10))),
        Mul(r.new_release_count, Rat(3, 10)))

C9_ZeroFloorElseWeightedSum ==
    Ranked =>
        \A g \in DOMAIN TodayRows :
            LET p == TodayRows[g].artist_popularity
            IN IF p.isna \/ (p.d = 1 /\ p.n \in {0, 1, 2})
               THEN /\ IsZero(df_diff[g].score)
                    /\ IsZero(ScorePoints(df_diff[g].score))
               ELSE df_diff[g].score = C9_Weighted(df_diff[g])

\* an artist of popularity 2 whose columns would give a non-zero score, and an
\* artist of higher popularity with a non-zero score
C9_Witness ==
    /\ Ranked
    /\ \E g, h \in DOMAIN TodayRows :
        /\ TodayRows[g].artist_popularity = Num(2)
        /\ ~IsZero(C9_Weighted(df_diff[g]))
        /\ IsZero(df_diff[g].score)
        /\ Gt(TodayRows[h].artist_popularity, Num(2))
        /\ ~df_diff[h].score.isna
        /\ ~IsZero(df_diff[h].score)

(***************************************************************************)
(* C10: the ranks of a run over N scored artists are a bijection onto      *)
(* 1..N, and a greater score means a smaller rank.                         *)
(***************************************************************************)
C10_RanksBijectiveByScore ==
    Ranked =>
        LET N == Cardinality(DOMAIN TodayRows)
        IN /\ Len(ranking_raw) = N
           /\ { ranking_raw[i].group_id : i \in 1 .. N } = DOMAIN TodayRows
           /\ { ranking_raw[i].rank : i \in 1 .. N } = 1 .. N
           /\ \A i, j \in 1 .. N :
                ranking_raw[i].rank = ranking_raw[j].rank => i = j
           /\ \A i \in 1 .. N : ranking_raw[i].score = df_diff[ranking_raw[i].group_id].score
           /\ \A i, j \in 1 .. N :
                Gt(ranking_raw[i].score, ranking_raw[j].score)
                    => ranking_raw[i].rank < ranking_raw[j].rank

\* two artists of different scores, the greater one in the snapshot after the
\* smaller one
C10_Witness ==
    /\ Ranked
    /\ Len(ranking_raw) >= 2
    /\ Gt(ranking_raw[1].score, ranking_raw[2].score)
    /\ ranking_raw[1].group_id > ranking_raw[2].group_id

(***************************************************************************)
(* C11: ties are broken by the order before the sort: of two artists with  *)
(* the same score in the daily ranking (the same cumulative_score in the   *)
(* cumulative ranking) the one listed earlier in the input of the sort has *)
(* the smaller rank.                                                       *)
(***************************************************************************)
\* the position of group g in a sequence of rows
PositionOf(rows, g) == CHOOSE i \in DOMAIN rows : rows[i].group_id = g

\* the input of the daily sort is df_diff in the order of the select
DailyTiesKeepInputOrder ==
    \A a, b \in DOMAIN ranking_raw :
        (/\ ranking_raw[a].score = ranking_raw[b].score
         /\ PositionOf(RowOrderRows(df_diff), ranking_raw[a].group_id)
                < PositionOf(RowOrderRows(df_diff), ranking_raw[b].group_id))
        => ranking_raw[a].rank < ranking_raw[b].rank

\* the input of the cumulative sort is merged, in the order of ranking_raw
CumulativeTiesKeepInputOrder ==
    \A a, b \in DOMAIN run.cumulative_records :
        (/\ run.cumulative_records[a].cumulative_score
                = run.cumulative_records[b].cumulative_score
         /\ PositionOf(ranking_raw, run.cumulative_records[a].group_id)
                < PositionOf(ranking_raw, run.cumulative_records[b].group_id))
        => Gt(run.cumulative_records[b].rank, run.cumulative_records[a].rank)

C11_TiesKeepInputOrder ==
    Ranked => (DailyTiesKeepInputOrder /\ CumulativeTiesKeepInputOrder)

(***************************************************************************)
(* C12: the cumulative row a run writes for date D has cumulative_score =  *)
(* (the cumulative_score stored for that artist on D-1, or 0 if there is   *)
(* no such row) + today's score_points (score * 10); negative points lower *)
(* the total, nothing clamps it.                                           *)
(***************************************************************************)
\* the run has upserted all its cumulative records
CumulativeDone ==
    /\ run.job = "ranking"
    /\ run.cumulative_records # <<>>
    /\ pc \in {"top20", "ranking_job"}
    /\ result \in {"running", "saved", "raised"}

\* the cumulative_score stored for g on the day before date, 0 without a row
StoredBefore(date, g) ==
    IF g \in DOMAIN TableRows(cumulative_rankings, date - 1)
    THEN cumulative_rankings[date - 1][g].cumulative_score
    ELSE Num(0)

C12_CumulativeIsPrevPlusToday ==
    CumulativeDone =>
        \A g \in DOMAIN df_diff :
            /\ g \in DOMAIN TableRows(cumulative_rankings, snapshot_date)
            /\ cumulative_rankings[snapshot_date][g].cumulative_score
                   = Add(StoredBefore(snapshot_date, g),
                         Mul(df_diff[g].score, Num(10)))

\* an artist with a row on D-1 and negative points today, whose total went
\* down, next to an artist without a row on D-1
C12_Witness ==
    /\ CumulativeDone
    /\ \E g, h \in DOMAIN df_diff :
          /\ g \in DOMAIN TableRows(cumulative_rankings, snapshot_date - 1)
          /\ df_diff[g].score.n < 0
          /\ Gt(StoredBefore(snapshot_date, g),
                cumulative_rankings[snapshot_date][g].cumulative_score)
          /\ h \notin DOMAIN TableRows(cumulative_rankings, snapshot_date - 1)

(***************************************************************************)
(* C13: a weekly run with week_end_date W gives every artist a total_score *)
(* that is the sum of the stored daily score of exactly that artist's rows *)
(* of daily_rankings with snapshot_date in [W-6, W]; a missing date or a   *)
(* null score counts 0 and a row outside the window counts nothing.        *)
(***************************************************************************)
WeeklySaved == run.job = "weekly" /\ result = "saved"

\* the score of g on date that counts for the week ending on W
CountedScore(W, date, g) ==
    IF /\ date >= W - 6
       /\ date <= W
       /\ g \in DOMAIN TableRows(daily_rankings, date)
       /\ ~daily_rankings[date][g].score.isna
    THEN daily_rankings[date][g].score
    ELSE Num(0)

RECURSIVE CountedSum(_, _, _)
CountedSum(W, dates, g) ==
    IF dates = {} THEN Num(0)
    ELSE LET date == CHOOSE date \in dates : TRUE
         IN Add(CountedScore(W, date, g), CountedSum(W, dates \ {date}, g))

\* g has a row of daily_rankings on a date of the week ending on W
InWeek(W, g) ==
    \E date \in WeekDates :
        date >= W - 6 /\ date <= W /\ g \in DOMAIN TableRows(daily_rankings, date)

C13_WeeklyTotalIsWindowSum ==
    WeeklySaved =>
        \A g \in Artists :
            /\ g \in DOMAIN weekly_rankings[run.date] <=> InWeek(run.date, g)
            /\ InWeek(run.date, g) =>
                  weekly_rankings[run.date][g].total_score
                      = CountedSum(run.date, WeekDates, g)

\* an artist with rows on two days of the week and one row outside of it
C13_Witness ==
    /\ WeeklySaved
    /\ \E g \in Artists :
          /\ Cardinality({ date \in WeekDates :
                             /\ date >= run.date - 6
                             /\ date <= run.date
                             /\ g \in DOMAIN TableRows(daily_rankings, date) }) = 2
          /\ \E date \in WeekDates :
                /\ date < run.date - 6 \/ date > run.date
                /\ g \in DOMAIN TableRows(daily_rankings, date)
                /\ ~IsZero(daily_rankings[date][g].score)

(***************************************************************************)
(* C14: calculate_change_stats(today, prev) goes by four cases: both       *)
(* present: diff = today - prev, and the label is '0.00%' when prev = 0    *)
(* and today = 0, 'N/A (prev 0)' when prev = 0 and today # 0, the percent  *)
(* ratio otherwise; only today: diff = today, 'N/A (no prev)'; only prev:  *)
(* diff = -prev, 'N/A (no today)'; neither: diff null, 'N/A'.              *)
(***************************************************************************)
StatsReturned == run.job = "stats" /\ runs_left = 0

\* the label is x as a percentage with two decimals
IsPercentOf(label, x) ==
    /\ label.text = "%"
    /\ label.minus = (x.n < 0)
    /\ 2 * Abs(label.hundredths * x.d - Abs(x.n) * 100) <= x.d

IsText(label, text) == label.text = text

C14_ChangeStatsCases ==
    StatsReturned =>
        LET today == run.today_val
            prev == run.yesterday_val
        IN /\ (~today.isna /\ ~prev.isna) =>
                 /\ result.diff = Sub(today, prev)
                 /\ (IsZero(prev) /\ IsZero(today)) =>
                        IsPercentOf(result.ratio_str, Num(0))
                 /\ (IsZero(prev) /\ ~IsZero(today)) =>
                        IsText(result.ratio_str, "N/A (prev 0)")
                 /\ ~IsZero(prev) =>
                        IsPercentOf(result.ratio_str,
                                    Mul(Div(Sub(today, prev), prev), Num(100)))
           /\ (~today.isna /\ prev.isna) =>
                 result.diff = today /\ IsText(result.ratio_str, "N/A (no prev)")
           /\ (today.isna /\ ~prev.isna) =>
                 /\ result.diff = Sub(Num(0), prev)
                 /\ IsText(result.ratio_str, "N/A (no today)")
           /\ (today.isna /\ prev.isna) =>
                 result.diff.isna /\ IsText(result.ratio_str, "N/A")

\* a previous value of 0 with a value today that is not 0
C14_Witness ==
    /\ StatsReturned
    /\ IsZero(run.yesterday_val)
    /\ ~run.today_val.isna /\ ~IsZero(run.today_val)
    /\ IsText(result.ratio_str, "N/A (prev 0)")

(***************************************************************************)
(* C15: running the daily ranking job a second time for the same date with *)
(* unchanged inputs leaves daily_rankings, daily_stats and                 *)
(* cumulative_rankings exactly as the first run left them: the same keys,  *)
(* the same values, the cumulative score not counted twice.                *)
(***************************************************************************)
\* a complete run for the date of the complete run before it has ended
RanTwice ==
    /\ run.job = "ranking"
    /\ pc = "ranking_job"
    /\ result = "saved"
    /\ run.previous = [date |-> run.date, result |-> "saved"]

C15_SecondRunChangesNothing ==
    RanTwice =>
        /\ daily_rankings = run.before[2]
        /\ daily_stats = run.before[3]
        /\ cumulative_rankings = run.before[4]

\* the second run had points to add
C15_Witness ==
    /\ RanTwice
    /\ \E g \in DOMAIN cumulative_rankings[run.date] :
          ~IsZero(cumulative_rankings[run.date][g].score)

(***************************************************************************)
(* C16: when the data a job needs is missing (no artist_snapshots row of   *)
(* the date for the ranking job, no daily_rankings row of the seven days   *)
(* for the weekly job, no spotify identity row for the snapshot job) the   *)
(* run ends with an error and has made no upsert or update on any table.   *)
(***************************************************************************)
\* the run that ended last read its source and found it empty
RanWithoutData ==
    /\ run.job # None
    /\ pc \in {"ranking_job", "weekly_job", "snapshot_job"}
    /\ run.network
    /\ \/ run.job = "ranking" /\ fetch_snapshot(run.date) = EmptyFrame
       \/ run.job = "weekly"
             /\ \A date \in WeekDates :
                   (date >= run.date - 6 /\ date <= run.date)
                       => TableRows(daily_rankings, date) = EmptyFrame
       \/ run.job = "snapshot" /\ run.df_ids = <<>>

C16_MissingDataAbortsUnwritten ==
    RanWithoutData =>
        /\ result = "raised"
        /\ run.upserts = 0
        /\ AllTables = run.before

\* a ranking run for a date without snapshot, after a run that filled the
\* tables
C16_Witness ==
    /\ RanWithoutData
    /\ run.job = "ranking"
    /\ run.previous.result = "saved"
    /\ daily_rankings # [d \in {} |-> d]

(***************************************************************************)
(* C17: when a required credential or setting is absent (SUPABASE_URL,     *)
(* SUPABASE_SERVICE_ROLE_KEY, SPOTIFY_CLIENT_ID, SPOTIFY_CLIENT_SECRET)    *)
(* the job aborts at startup, before any network call and before any row   *)
(* is persisted.                                                           *)
(***************************************************************************)
C17_ConfigErrorBeforeAnything ==
    (run.job # None /\ run.error = "config") =>
        /\ result = "raised"
        /\ ~run.network
        /\ run.upserts = 0

(***************************************************************************)
(* C18: when a daily run for date D is killed after it committed any       *)
(* prefix of its upsert batches (also between the stages daily_rankings,   *)
(* daily_stats, cumulative_rankings), a complete run for D on the same     *)
(* inputs leaves for D the rows a single uninterrupted run would have      *)
(* produced.                                                               *)
(***************************************************************************)
\* a complete run for the date of the killed run before it has ended
RanAfterKill ==
    /\ run.job = "ranking"
    /\ pc = "ranking_job"
    /\ result = "saved"
    /\ run.previous = [date |-> run.date, result |-> "killed"]

\* the rows of a sequence of records, by group_id
RowsOf(records) ==
    [g \in { records[i].group_id : i \in DOMAIN records } |->
        records[CHOOSE i \in DOMAIN records : records[i].group_id = g]]

\* what one run for date gives on the snapshots and the rows of the day before
UninterruptedTieBreak == IF tie_break = None THEN "stable" ELSE tie_break
UninterruptedFrame(date) ==
    DiffFrame(fetch_snapshot(date), fetch_snapshot(date - 1))
UninterruptedRaw(date) ==
    RankedFrame(UninterruptedFrame(date),
                DailyOrder(UninterruptedFrame(date), UninterruptedTieBreak))
UninterruptedPoints(date) ==
    RankingPoints(UninterruptedRaw(date), UninterruptedFrame(date),
                  TableRows(daily_rankings, date - 1))
UninterruptedCumulative(date) ==
    CumulativeRecords(Merged(UninterruptedRaw(date), UninterruptedFrame(date),
                             TableRows(cumulative_rankings, date - 1)),
                      UninterruptedTieBreak)

C18_RerunAfterKillHeals ==
    RanAfterKill =>
        /\ daily_rankings[run.date]
               = RowsOf(RankingRecords(UninterruptedPoints(run.date)))
        /\ daily_stats[run.date]
               = StatsRecord(UninterruptedPoints(run.date),
                             TableRows(daily_rankings, run.date - 1))
        /\ cumulative_rankings[run.date] = RowsOf(UninterruptedCumulative(run.date))

\* the killed run had written rows of daily_rankings and not yet all rows of
\* cumulative_rankings
C18_Witness ==
    /\ RanAfterKill
    /\ TableRows(run.before[2], run.date) # EmptyFrame
    /\ DOMAIN TableRows(run.before[4], run.date) # DOMAIN cumulative_rankings[run.date]

(***************************************************************************)
(* C19: after any sequence of daily runs (dates skipped, run out of order, *)
(* rerun) every stored cumulative_score, for date D and an artist, is the  *)
(* running sum of the stored daily score_points of that artist over all    *)
(* dates up to and including D.                                            *)
(***************************************************************************)
\* the stored daily score of g on date, 0 without a row or without a score
StoredPoints(date, g) ==
    IF g \in DOMAIN TableRows(daily_rankings, date)
    THEN Fillna(daily_rankings[date][g].score, Num(0))
    ELSE Num(0)

RECURSIVE RunningSum(_, _)
RunningSum(date, g) ==
    IF date < 1 THEN Num(0)
    ELSE Add(StoredPoints(date, g), RunningSum(date - 1, g))

\* C19: after a complete run every stored cumulative_score is the running sum
\* of the artist's stored daily score_points, whatever runs came before
C19_CumulativeIsRunningSum ==
    (run.job = "ranking" /\ pc = "ranking_job" /\ result = "saved") =>
        \A date \in DOMAIN cumulative_rankings :
            \A g \in DOMAIN cumulative_rankings[date] :
                cumulative_rankings[date][g].cumulative_score = RunningSum(date, g)

\* g has a daily row on every date from its first one to date
NoGap(date, g) ==
    \A first \in 1 .. date :
        g \in DOMAIN TableRows(daily_rankings, first) =>
            \A later \in first .. date : g \in DOMAIN TableRows(daily_rankings, later)

\* C19, the part that holds: the running sum after complete runs that went
\* date by date (a date may be run again before the next one), for an
\* artist that has a row on every date since its first one
C19_InOrderRunningSum ==
    (run.job = "ranking" /\ pc = "ranking_job" /\ result = "saved" /\ run.in_order) =>
        \A date \in DOMAIN cumulative_rankings :
            \A g \in DOMAIN cumulative_rankings[date] :
                NoGap(date, g) =>
                    cumulative_rankings[date][g].cumulative_score = RunningSum(date, g)

\* two dates run one after the other, an artist with points on both
C19_Witness ==
    /\ run.job = "ranking" /\ pc = "ranking_job" /\ result = "saved" /\ run.in_order
    /\ run.previous.date = run.date - 1
    /\ \E g \in DOMAIN cumulative_rankings[run.date] :
          /\ ~IsZero(StoredPoints(run.date, g))
          /\ ~IsZero(StoredPoints(run.date - 1, g))
          /\ NoGap(run.date, g)

(***************************************************************************)
(* C20: the snapshot collector tolerates the absence of an artist's data:  *)
(* whatever the catalog calls for an artist end with, the pass goes on     *)
(* through the roster and gives exactly one record for every artist of the *)
(* roster, with 'N/A' and zeros for the data that was not available.       *)
(***************************************************************************)
\* the first pass of a run that started fetching is over
FirstPassOver ==
    /\ run.job = "snapshot"
    /\ run.date # 0
    /\ ~(pc = "fetch_snapshot" /\ run.round = 0)

\* the record of a spotify_id is a record fetch_snapshot makes of some
\* outcomes of its two calls, none of them an exception
IsSnapshotRecord(record, spotify_id) ==
    \E info \in InfoOutcomes, tracks \in TrackOutcomes :
        /\ info.kind # "raised"
        /\ tracks.kind # "raised"
        /\ record = SnapshotRecord(spotify_id, info, tracks)

\* C20: after the first pass there is one record for every artist of the
\* roster, in the order of the roster
C20_OneRecordPerRosterArtist ==
    FirstPassOver =>
        /\ Len(run.df_snapshot) = Len(run.df_ids)
        /\ \A i \in DOMAIN run.df_ids :
              IsSnapshotRecord(run.df_snapshot[i], run.df_ids[i].spotify_id)

(***************************************************************************)
(* C21: the snapshot job makes the first pass and at most 3 more passes    *)
(* and then goes on to the upsert, whatever the calls of the catalog end   *)
(* with; a further pass fetches exactly the artists whose record has the   *)
(* name 'N/A' or has followers = 0 with a popularity > 0, and there is no  *)
(* further pass and no further fetch once no record is like that.          *)
(***************************************************************************)
\* a run of the snapshot job that got as far as its first pass
SnapshotStarted == run.job = "snapshot" /\ run.date # 0

\* the spotify ids of a sequence of rows
SpotifyIds(rows) == { rows[i].spotify_id : i \in DOMAIN rows }

\* the spotify ids whose record in df_snapshot needs a retry
IncompleteIds(df_snapshot) ==
    { df_snapshot[i].spotify_id : i \in { j \in DOMAIN df_snapshot : NeedsRetry(df_snapshot[j]) } }

\* the passes after the first: there are at most 3 of them, each is over the
\* incomplete records and nothing else, and none is started without one
RetryPassesAreExact ==
    (SnapshotStarted /\ pc = "fetch_snapshot" /\ run.round >= 1) =>
        /\ run.round <= RetryRounds
        /\ IncompleteIds(run.df_snapshot) # {}
        /\ SpotifyIds(run.todo) \cup SpotifyIds(run.fetched) = IncompleteIds(run.df_snapshot)
        /\ Len(run.todo) + Len(run.fetched) = Cardinality(IncompleteIds(run.df_snapshot))

\* the passes stop early only when no record is incomplete
StopsOnlyWhenComplete ==
    (SnapshotStarted /\ pc = "upsert_snapshots" /\ run.round < RetryRounds) =>
        IncompleteIds(run.df_snapshot) = {}

\* a run that left fetch_snapshot is at the upsert or past it
ProceedsToUpsert ==
    (SnapshotStarted /\ pc # "fetch_snapshot") =>
        (pc = "upsert_snapshots" \/ result = "saved")

\* C21: at most 3 further passes, each over exactly the incomplete records,
\* none without one, and then the upsert, whatever the calls end with
C21_RetryPassesThenUpsert ==
    /\ RetryPassesAreExact
    /\ StopsOnlyWhenComplete
    /\ ProceedsToUpsert

\* C21, the part that holds: the number and the contents of the passes
C21_RetryPasses ==
    /\ RetryPassesAreExact
    /\ StopsOnlyWhenComplete

(***************************************************************************)
(* C22: a further pass merges only the re-fetches that succeeded: an       *)
(* artist whose re-fetch failed (no artist info or no top tracks) keeps    *)
(* every value of an earlier pass, and an artist that was not fetched      *)
(* again is left as it was.                                                *)
(***************************************************************************)
\* a further pass is over and its records are about to be merged
RetryPassOver ==
    SnapshotStarted /\ pc = "fetch_snapshot" /\ run.round >= 1 /\ run.todo = <<>>

\* record is what fetch_snapshot makes when one of its two calls gave None
IsFailedRefetch(record) ==
    \E info \in InfoOutcomes, tracks \in TrackOutcomes :
        /\ info.kind # "raised" /\ tracks.kind # "raised"
        /\ info.kind = "none" \/ tracks.kind = "none"
        /\ record = SnapshotRecord(record.spotify_id, info, tracks)

\* the spotify ids the pass fetched again without success
FailedIds == { run.fetched[i].spotify_id :
                 i \in { j \in DOMAIN run.fetched : IsFailedRefetch(run.fetched[j]) } }

\* the merge leaves the records of the ids as they are
MergeKeeps(ids) ==
    \A i \in DOMAIN run.df_snapshot :
        run.df_snapshot[i].spotify_id \in ids =>
            /\ i \in DOMAIN run'.df_snapshot
            /\ run'.df_snapshot[i] = run.df_snapshot[i]

\* C22: the merge of a further pass keeps the records of the failed
\* re-fetches and of the artists that were not fetched again
C22_MergeOnlySuccessfulRefetches ==
    [][RetryPassOver =>
          /\ MergeKeeps(FailedIds)
          /\ MergeKeeps(SpotifyIds(run.df_snapshot) \ SpotifyIds(run.fetched))]_vars

\* C22, the part that holds: an artist that was not fetched again is left
\* as it was
C22_MergeKeepsOthers ==
    [][RetryPassOver =>
          MergeKeeps(SpotifyIds(run.df_snapshot) \ SpotifyIds(run.fetched))]_vars

(***************************************************************************)
(* C23: for each artist ranked on date D, prev_rank and score_prev are the *)
(* rank and the score of the artist's stored row of daily_rankings for     *)
(* D-1, both null without such a row; score_delta is score_points minus    *)
(* score_prev, null when score_prev is null; rising is true exactly when   *)
(* score_delta is not null and greater than 50, and false otherwise, never *)
(* null, also when score_delta is 50.                                      *)
(***************************************************************************)
\* the run has made its records of daily_rankings
RecordsMade == run.job = "ranking" /\ run.date # 0 /\ run.records # <<>>

\* the rows of daily_rankings stored for the date before the run's
StoredPrevRows == TableRows(daily_rankings, run.date - 1)

\* x is a number above fifty
AboveFifty(x) == ~x.isna /\ x.n > 50 * x.d

RecordJoinsPrevRow(rec) ==
    IF rec.group_id \in DOMAIN StoredPrevRows
    THEN /\ rec.prev_rank = StoredPrevRows[rec.group_id].rank
         /\ rec.score_prev = StoredPrevRows[rec.group_id].score
    ELSE /\ rec.prev_rank = NaN
         /\ rec.score_prev = NaN

RecordDeltaAndRising(rec) ==
    /\ rec.score_delta = IF rec.score_prev.isna THEN NaN
                         ELSE Sub(rec.score, rec.score_prev)
    /\ rec.rising_icon \in BOOLEAN
    /\ rec.rising_icon <=> AboveFifty(rec.score_delta)

\* C23: every record of the run joins the stored row of the date before and
\* has the delta and the rising flag that follow from it
C23_PrevJoinDeltaRising ==
    RecordsMade =>
        \A i \in DOMAIN run.records :
            /\ RecordJoinsPrevRow(run.records[i])
            /\ RecordDeltaAndRising(run.records[i])

\* one artist with a stored row and a delta of exactly 50, not rising, and
\* one artist with no stored row
C23_Witness ==
    /\ RecordsMade
    /\ \E i, j \in DOMAIN run.records :
          /\ run.records[i].group_id \in DOMAIN StoredPrevRows
          /\ run.records[i].score_delta = Num(50)
          /\ ~run.records[i].rising_icon
          /\ run.records[j].group_id \notin DOMAIN StoredPrevRows
          /\ run.records[j].score_delta = NaN

(***************************************************************************)
(* C24: when two runs of the ranking job for one date overlap and read the *)
(* same snapshots and the same rows of the date before, then however their *)
(* upsert batches interleave, the rows stored for the date in the end are  *)
(* those of a single run.                                                  *)
(***************************************************************************)
\* both runs have ended
OverlapDone ==
    run.job = "overlap" /\ \A p \in Processes : run.procs[p].pc = "done"

\* C24: after both runs the rows of the date are the rows of one run
C24_OverlapGivesSingleRunRows ==
    OverlapDone =>
        /\ daily_rankings[run.date]
               = RowsOf(RankingRecords(UninterruptedPoints(run.date)))
        /\ daily_stats[run.date]
               = StatsRecord(UninterruptedPoints(run.date),
                             TableRows(daily_rankings, run.date - 1))
        /\ cumulative_rankings[run.date] = RowsOf(UninterruptedCumulative(run.date))
        /\ run.date \in DOMAIN daily_top20 =>
              daily_top20[run.date]
                  = RowsOf(Top20Records(UninterruptedPoints(run.date)))

\* the batches of daily_rankings of the two runs were interleaved, and there
\* were rows of the date before
C24_Witness ==
    /\ OverlapDone
    /\ run.mixed
    /\ Len(run.procs[1].records) >= 2
    /\ TableRows(daily_rankings, run.date - 1) # EmptyFrame

(***************************************************************************)
(* C25: the records one run of the snapshot job submits for upsert into    *)
(* artist_snapshots hold at most one record for a key (snapshot_date,      *)
(* group_id), whatever the identity registry holds, also when two spotify  *)
(* ids belong to one group.                                                *)
(***************************************************************************)
\* the records upsert_snapshots is about to submit
SubmittedRecords == SnapshotRecords(run.df_snapshot, run.df_ids)

\* C25: the submitted records have a group_id each of their own (the
\* snapshot_date is the same for all of them)
C25_OneRecordPerKey ==
    (SnapshotStarted /\ pc = "upsert_snapshots") =>
        \A i, j \in DOMAIN SubmittedRecords :
            SubmittedRecords[i].group_id = SubmittedRecords[j].group_id => i = j

\* C25, the part that holds: the submitted records have a spotify_id each of
\* their own, also when the registry holds a spotify_id twice
C25_OneRecordPerSpotifyId ==
    (SnapshotStarted /\ pc = "upsert_snapshots") =>
        \A i, j \in DOMAIN SubmittedRecords :
            SubmittedRecords[i].spotify_id = SubmittedRecords[j].spotify_id => i = j

====
